---- MODULE Spec2Model ----
(***************************************************************************)
(* Registry replication engine of nestjs-lab: the memory-gated work queue  *)
(* (RegistryService over p-queue), the sync flows (buffer and tarball      *)
(* staged) and the recursive copyImage of RegistryCopyService.             *)
(*                                                                         *)
(* Memory quantities are counted in MiB (the source counts bytes): the     *)
(* 3 GiB threshold is 3 * 1024 MiB.  Only comparisons against the          *)
(* threshold matter, and they are preserved by the change of unit.         *)
(***************************************************************************)
EXTENDS Integers, Sequences, FiniteSets, TLC

VARIABLES
    \* the work queue (p-queue) of RegistryService and its environment
    queueSize, pending, concurrency, mem, load, lastOp,
    \* one sync invocation: the flow run, the source manifest, its position
    flow, manifest, pc, idx, configSize, blobs, tmpFiles, unlinkFailed,
    \* the credentials of the client and the Content-Type the source serves
    \* the requested manifest with
    credential, contentType,
    \* what the invocation has done so far
    pushedOk, blobFailed, putIssued, putBody, putType, outcome, error,
    \* copyImage: the index fetched by the root (if any) and every copy
    index, cp,
    \* requests and answers seen on the wire
    wire,
    \* the caller of the job has asked for its cancellation
    cancelRequested,
    \* what the last call of getMetrics returned
    metrics,
    \* concurrent syncImageWithTarball jobs on one queue, the files of
    \* TMP_DIR with the job that created each, and whether a job has touched
    \* a file created by another
    jobs, files, trespass,
    \* saveAsOCIImageLayout: the layers handed in, the useGzip argument and
    \* the layers written
    image, useGzip, layout,
    \* one call of HttpApiService, one call of pushImage, and the jobs of
    \* the work queue one by one
    http, pushed, slots

qvars == <<queueSize, pending, concurrency, load>>
svars == <<flow, manifest, pc, idx, configSize, blobs, tmpFiles, unlinkFailed,
           credential, contentType, pushedOk, blobFailed, putIssued, putBody,
           putType, outcome, error>>
cvars == <<index, cp>>
tvars == <<jobs, files, trespass>>
ovars == <<image, useGzip, layout>>
nvars == <<http, pushed, slots>>
xvars == <<cancelRequested, metrics, tvars, ovars, nvars>>
vars == <<qvars, mem, lastOp, svars, cvars, wire, xvars>>

\* the parts of the state a specification does not exercise
NoCancel == cancelRequested = FALSE
NoMetrics == metrics = <<>>
NoJobs == jobs = <<>> /\ files = <<>> /\ trespass = FALSE
NoSave == image = <<>> /\ useGzip = "unset" /\ layout = <<>>
NoCalls == http = <<>> /\ pushed = <<>> /\ slots = <<>>

(***************************************************************************)
(* Program constants (auth.service.ts:62-66).                              *)
(***************************************************************************)
DEFAULT_CONCURRENCY == 5
MAX_CONCURRENCY == 10
MIN_CONCURRENCY == 1
MEMORY_THRESHOLD == 3 * 1024
MAX_QUEUE_SIZE == 1000

(***************************************************************************)
(* Bounds of the model.                                                    *)
(***************************************************************************)
MaxWaiting == 3

Max(a, b) == IF a >= b THEN a ELSE b
Min(a, b) == IF a <= b THEN a ELSE b

(***************************************************************************)
(* process.memoryUsage(): the fields the service reads.  Node reports the  *)
(* array buffers inside `external` as well, so arrayBuffers <= external.   *)
(***************************************************************************)
MemSamples ==
    { m \in [heapUsed : {MEMORY_THRESHOLD - 2, MEMORY_THRESHOLD},
             external : {0, 1, 2},
             arrayBuffers : {0, 1}] : m.arrayBuffers <= m.external }

\* the two samples the full-size queue specification ticks with
QueueSamples ==
    { m \in MemSamples : m.arrayBuffers = 0 /\ m.external = 1 }

\* usedMemory of adjustConcurrency / totalUsed of waitForMemoryAvailability
usedMemory(m) == m.heapUsed + m.external + m.arrayBuffers

\* p-queue: start the head of the queue when the running count allows it
tryToStartAnotherAtLimit(q) ==
    IF q.size > 0 /\ q.pending <= q.concurrency
    THEN [q EXCEPT !.size = @ - 1, !.pending = @ + 1]
    ELSE q
tryToStartAnother(q) ==
    IF q.size > 0 /\ q.pending < q.concurrency
    THEN [q EXCEPT !.size = @ - 1, !.pending = @ + 1]
    ELSE q

\* p-queue: `while (this._tryToStartAnother()) {}`
RECURSIVE processQueue(_)
processQueue(q) ==
    IF tryToStartAnother(q) = q THEN q ELSE processQueue(tryToStartAnother(q))

\* the queueClass override of enqueue: TRUE when the enqueue throws
enqueueOverflows(size) == size >= MAX_QUEUE_SIZE

\* the new concurrency computed by one adjustConcurrency tick
adjustedNoFloor(c, m) ==
    IF usedMemory(m) > MEMORY_THRESHOLD
    THEN c - 1
    ELSE IF c < MAX_CONCURRENCY THEN c + 1 ELSE c
adjustedStuckBelowCeiling(c, m) ==
    IF usedMemory(m) > MEMORY_THRESHOLD
    THEN Max(MIN_CONCURRENCY, c - 1)
    ELSE IF c < MAX_CONCURRENCY - 1 THEN c + 1 ELSE c
adjusted(c, m) ==
    IF usedMemory(m) > MEMORY_THRESHOLD
    THEN Max(MIN_CONCURRENCY, c - 1)
    ELSE IF c < MAX_CONCURRENCY THEN c + 1 ELSE c

QState == [size |-> queueSize, pending |-> pending, concurrency |-> concurrency]

SetQ(q) ==
    /\ queueSize' = q.size
    /\ pending' = q.pending
    /\ concurrency' = q.concurrency

(***************************************************************************)
(* queue.add(job): enqueue (may throw), then try to start a job.           *)
(***************************************************************************)
QueueAdd ==
    IF enqueueOverflows(queueSize)
    THEN /\ lastOp' = "add_overflow"
         /\ UNCHANGED <<qvars, mem, svars, cvars, wire, xvars>>
    ELSE /\ SetQ(tryToStartAnother([QState EXCEPT !.size = @ + 1]))
         /\ lastOp' = "add_ok"
         /\ UNCHANGED <<mem, load, svars, cvars, wire, xvars>>

(***************************************************************************)
(* A running job settles (resolved or rejected): p-queue's _next().        *)
(***************************************************************************)
QueueSettle ==
    /\ pending > 0
    /\ SetQ(tryToStartAnother([QState EXCEPT !.pending = @ - 1]))
    /\ lastOp' = "settle"
    /\ UNCHANGED <<mem, load, svars, cvars, wire, xvars>>

(***************************************************************************)
(* The cron tick: sample memory, adjust, and (p-queue's concurrency        *)
(* setter) process the queue under the new limit.                          *)
(***************************************************************************)
ticked(q, m) ==
    IF usedMemory(m) > MEMORY_THRESHOLD \/ q.concurrency < MAX_CONCURRENCY
    THEN processQueue([q EXCEPT !.concurrency = adjusted(q.concurrency, m)])
    ELSE q

adjustConcurrency(m) ==
    /\ mem' = m
    /\ SetQ(ticked(QState, m))
    /\ lastOp' = "tick"
    /\ UNCHANGED <<load, svars, cvars, wire, xvars>>

\* the environment: sustained memory pressure, sustained headroom, or either
LoadAllows(m) ==
    CASE load = "high" -> usedMemory(m) > MEMORY_THRESHOLD
      [] load = "low" -> usedMemory(m) <= MEMORY_THRESHOLD
      [] OTHER -> TRUE

SetLoad ==
    /\ \E l \in {"any", "high", "low"} : l # load /\ load' = l
    /\ lastOp' = "load"
    /\ UNCHANGED <<queueSize, pending, concurrency, mem, svars, cvars, wire, xvars>>

\* what has been seen on the wire so far: nothing yet
NoWire ==
    [unlocated |-> {}, secondGets |-> {}, followUpAuth |-> FALSE,
     posted |-> {}, posts |-> 0, held |-> 0, used |-> {},
     reuse |-> FALSE, stale |-> FALSE,
     badSessionPut |-> FALSE, non201Accepted |-> FALSE, corrupt |-> FALSE,
     open |-> {}, drained |-> {}, reads |-> {}, location |-> "none",
     sessionOk |-> FALSE]

\* no sync invocation in progress
NoSync ==
    /\ flow = "none"
    /\ manifest = <<>>
    /\ pc = "idle"
    /\ idx = 0
    /\ configSize = 0
    /\ blobs = <<>>
    /\ tmpFiles = {}
    /\ unlinkFailed = {}
    /\ pushedOk = {}
    /\ blobFailed = FALSE
    /\ putIssued = FALSE
    /\ putBody = <<>>
    /\ putType = <<>>
    /\ credential = "none"
    /\ contentType = <<>>
    /\ outcome = "none"
    /\ error = "none"
    /\ wire = NoWire

QueueStart ==
    /\ queueSize = 0
    /\ pending = 0
    /\ concurrency = DEFAULT_CONCURRENCY
    /\ mem = [heapUsed |-> MEMORY_THRESHOLD - 2, external |-> 0, arrayBuffers |-> 0]
    /\ load = "any"
    /\ lastOp = "init"

InitQ ==
    /\ QueueStart /\ NoSync /\ index = <<>> /\ cp = <<>>
    /\ NoCancel /\ NoMetrics /\ NoJobs /\ NoSave /\ NoCalls

(***************************************************************************)
(* SpecQueue: the queue at its real size.                                  *)
(***************************************************************************)
TickQ == \E m \in QueueSamples : adjustConcurrency(m)

NextQueue == QueueAdd \/ QueueSettle \/ TickQ

SpecQueue == InitQ /\ [][NextQueue]_vars

(***************************************************************************)
(* SpecTick: the control loop under every memory sample, with the cron     *)
(* schedule as weak fairness of the tick.                                  *)
(***************************************************************************)
Tick == \E m \in MemSamples : LoadAllows(m) /\ adjustConcurrency(m)

AddBounded == queueSize < MaxWaiting /\ QueueAdd

NextTick == Tick \/ SetLoad \/ AddBounded \/ QueueSettle

SpecTick == InitQ /\ [][NextTick]_vars /\ WF_vars(Tick)

(***************************************************************************)
(* getMetrics: a snapshot of the queue counters and a memory sample; it    *)
(* reads the queue and assigns nothing.                                    *)
(***************************************************************************)
metricsOfBacklog(q, m) ==
    [queueSize |-> q.size + q.pending, pending |-> q.pending,
     concurrency |-> q.concurrency, memory |-> m]
metricsOf(q, m) ==
    [queueSize |-> q.size, pending |-> q.pending,
     concurrency |-> q.concurrency, memory |-> m]

getMetrics ==
    /\ \E m \in QueueSamples : metrics' = metricsOf(QState, m)
    /\ lastOp' = "metrics"
    /\ UNCHANGED <<qvars, mem, svars, cvars, wire, cancelRequested, tvars, ovars, nvars>>

NextMetrics == TickQ \/ AddBounded \/ QueueSettle \/ getMetrics

SpecMetrics == InitQ /\ [][NextMetrics]_vars

(***************************************************************************)
(* Claims about the work queue and its control loop.                       *)
(***************************************************************************)
\* C4 (as stated): an add made while waiting plus running jobs together
\* number MAX_QUEUE_SIZE or more fails with the overflow error and leaves
\* queue depth and running count unchanged.
C4_OverflowCountsRunning ==
    [][(lastOp' \in {"add_ok", "add_overflow"} /\ queueSize + pending >= MAX_QUEUE_SIZE)
          => (lastOp' = "add_overflow" /\ UNCHANGED <<queueSize, pending>>)]_vars

\* C5: whatever the memory samples of the ticks, the concurrency of the
\* queue stays within [MIN_CONCURRENCY, MAX_CONCURRENCY].
C5_ConcurrencyInRange ==
    concurrency >= MIN_CONCURRENCY /\ concurrency <= MAX_CONCURRENCY

C5_Witness ==
    /\ lastOp = "tick"
    /\ concurrency = MIN_CONCURRENCY
    /\ usedMemory(mem) > MEMORY_THRESHOLD

\* C6 (as stated): a tick at concurrency c yields max(1, c-1) when heap-in-use
\* plus external allocation is above the threshold and min(10, c+1)
\* otherwise, and never moves concurrency by more than 1.
C6_TickFunction ==
    [][lastOp' = "tick" =>
         /\ concurrency' =
               IF mem'.heapUsed + mem'.external > MEMORY_THRESHOLD
               THEN Max(MIN_CONCURRENCY, concurrency - 1)
               ELSE Min(MAX_CONCURRENCY, concurrency + 1)
         /\ concurrency' - concurrency \in {-1, 0, 1}]_vars

\* C7: under sustained pressure (every tick above the threshold) the
\* concurrency reaches MIN_CONCURRENCY and stays; under sustained headroom it
\* reaches MAX_CONCURRENCY and stays.
C7_Converges ==
    /\ <>[](load = "high") => <>[](concurrency = MIN_CONCURRENCY)
    /\ <>[](load = "low") => <>[](concurrency = MAX_CONCURRENCY)

C7_Witness ==
    /\ load = "low"
    /\ lastOp = "tick"
    /\ concurrency = MAX_CONCURRENCY

(***************************************************************************)
(* Images.  A digest is the pair (algorithm, hex); a media type is kept as *)
(* its segments so that `includes` is a computation.  Blobs are content    *)
(* addressed: the size of a blob is a function of its digest.              *)
(***************************************************************************)
MaxLayers == 2
MAX_BLOB_SIZE_BYTES == 500 * 1024 * 1024

DigestA == <<"sha256", "aa">>
DigestB == <<"sha256", "bb">>
Digests == {DigestA, DigestB}
BlobSizes == {MAX_BLOB_SIZE_BYTES, MAX_BLOB_SIZE_BYTES + 1}

ManifestV2 == <<"application/vnd.docker.distribution", "manifest", "v2+json">>
ManifestOCI == <<"application/vnd.oci", "image", "manifest", "v1+json">>
ConfigType == <<"application/vnd.docker.container", "image", "v1+json">>
LayerType == <<"application/vnd.docker.image.rootfs", "diff.tar.gzip">>
ForeignLayerType == <<"application/vnd.docker.image.rootfs", "foreign", "diff.tar.gzip">>

ConcreteTypes == {ManifestV2, ManifestOCI}
LayerTypes == {LayerType, ForeignLayerType}

\* String.prototype.includes on a media type, by segment
includes(mediaType, segment) == \E i \in DOMAIN mediaType : mediaType[i] = segment

\* `${digest}` as it appears in URLs and manifests
digestString(d) == d[1] \o ":" \o d[2]

\* path.join(TMP_DIR, `${digest.replace(':', '_')}.blob`)
tmpPath(d) == d[1] \o "_" \o d[2] \o ".blob"

Descriptor(mt, d, sz) == [mediaType |-> mt, size |-> sz[d], digest |-> digestString(d)]

SeqsUpTo(S, n) == UNION { [1..k -> S] : k \in 0..n }

Manifests(n) ==
    { [schemaVersion |-> 2, mediaType |-> mt,
       config |-> Descriptor(ConfigType, DigestA, sz),
       layers |-> [i \in DOMAIN ls |-> Descriptor(ls[i][1], ls[i][2], sz)]] :
        mt \in ConcreteTypes, sz \in [Digests -> BlobSizes],
        ls \in SeqsUpTo(LayerTypes \X Digests, n) }

\* the digest pair behind a digest string of the model
digestOf(str) == CHOOSE d \in Digests : digestString(d) = str

\* position 0 is the config blob, position i >= 1 is layer i
blobAt(m, i) == IF i = 0 THEN m.config ELSE m.layers[i]
Positions(m) == 0..Len(m.layers)

(***************************************************************************)
(* The sync flows: RegistryService.syncImageWithBuffer ("buffer"),         *)
(* RegistryService.syncImageWithTarball ("tarball") and                    *)
(* ContainerRegistryClient.syncImageWithBuffer ("client"), all three with  *)
(* the blobs pulled before they are pushed, and syncImage of the client of *)
(* saveImage.ts ("syncImage"), which opens the upload session of a blob    *)
(* before it pulls it.  The single blob relays are streamBlob of client.ts *)
(* ("stream"), streamBlob of the client of saveImage.ts ("relay") and      *)
(* streamBlobchunk ("chunk").                                              *)
(***************************************************************************)
SyncFlows == {"buffer", "tarball", "client", "syncImage"}
StreamFlows == {"stream", "relay", "chunk"}

\* the credentials the client is constructed with; RegistryService creates
\* its clients from the registry URL alone, and syncImage is followed with
\* a client that has one
Credentials == {"none", "basic"}
CredentialsOf(f) ==
    CASE f \in {"buffer", "tarball"} -> {"none"}
      [] f = "syncImage" -> {"basic"}
      [] OTHER -> Credentials

\* headers of the axios instance of the client, and of the axios default
\* export the redirect is followed with
instanceHeaders(cred) == IF cred = "none" THEN {} ELSE {"Authorization"}
globalHeaders == {}

\* headers of the GET that follows a redirect
followUpHeadersInstance(cred) == instanceHeaders(cred)
followUpHeaders(cred) == globalHeaders

\* answers of the source to the blob GET
GetResponses ==
    [status : {200, 302, 307, 404}, location : BOOLEAN]

\* what pullBlobAsStream does with the answer of the first GET.  The
\* clients of client.ts and saveImage.ts send it with maxRedirects 0, pass
\* 200, 302 and 307 and look for the Location themselves.  The client
\* RegistryService is written against sets neither option: axios follows a
\* redirect that has a Location, and hands one that has none to its default
\* validateStatus, which rejects it as it rejects a 404.
pullOutcome(f, resp) ==
    IF resp.status \in {302, 307}
    THEN IF resp.location THEN "follow"
         ELSE IF f \in {"buffer", "tarball"} THEN "UnexpectedStatus"
         ELSE "MissingRedirectLocation"
    ELSE IF resp.status = 200 THEN "stream"
    ELSE "UnexpectedStatus"

\* Content-Length of a blob GET as parsed by pullBlobAsStream: the size of
\* the blob, or 0 when the header is absent
ContentLengths(desc) == {0, desc.size}

\* answers of the destination to the POST that opens an upload session: the
\* Location header, and the field `location` of the body, are absent, a
\* path of the registry, or a full URL
Locations == {"none", "relative", "absolute"}
PostResponses == [status : {200, 202, 500}, location : Locations, body : Locations]

\* the session URL the client takes from the answer: startBlobUpload
\* returns response.data.location || response.headers['location'],
\* streamBlobchunk destructures data.location and nothing else
sessionUrl(f, resp) ==
    IF f = "chunk" \/ resp.body # "none" THEN resp.body ELSE resp.location

\* building and sending the blob PUT from the session URL: the callers of
\* startBlobUpload call `includes` on it (a TypeError on undefined);
\* pushBlobStream hands the URL to undici's request, which parses it with
\* new URL(); pushBlobFromFile and streamBlobchunk send it through the axios
\* instance, which resolves a path against its baseURL; streamBlobchunk
\* builds `${location}&digest=${digest}` whatever location is
urlOutcome(f, loc) ==
    IF f = "chunk" THEN "ok"
    ELSE IF loc = "none" THEN "TypeError"
    ELSE IF loc = "relative" /\ f # "tarball" THEN "InvalidURL"
    ELSE "ok"

\* startBlobUpload.  The client RegistryService is written against (field
\* `client`, getManifest, putManifest) posts with the validateStatus of
\* axios, which passes every 2xx; the client of client.ts passes 202 only.
\* The URL is returned unchecked, and the caller builds the PUT from it.
sessionOutcome(f, resp) ==
    IF ~(IF f \in {"buffer", "tarball"}
         THEN resp.status >= 200 /\ resp.status < 300
         ELSE resp.status = 202)
    THEN "UploadSessionRejected"
    ELSE urlOutcome(f, sessionUrl(f, resp))

\* the POST answer is one the protocol accepts as an opened session
sessionOpened(resp) == resp.status = 202 /\ resp.location # "none"

\* the session URL the blob PUT is sent to: the one the POST just returned
uploadUrlUsedCached(fresh, held) == IF held # 0 THEN held ELSE fresh
uploadUrlUsed(fresh, held) == fresh

\* statuses a registry answers to the final blob PUT
PutStatuses == {201, 202, 500}

\* pushBlobStream / pushBlobFromFile: the push is accepted
pushAccepted(status) == status = 201

\* the loop over the blobs is over after position i of n layers
lastBlobOffByOne(i, n) == i >= n - 1
lastBlob(i, n) == i >= n

\* the manifest ContainerRegistryClient.syncImageWithBuffer and syncImage
\* rebuild
newManifest(m, cfgSize) ==
    [schemaVersion |-> 2,
     mediaType |-> ManifestV2,
     config |-> [mediaType |-> m.config.mediaType, size |-> cfgSize,
                 digest |-> m.config.digest],
     layers |-> [i \in DOMAIN m.layers |->
                   [mediaType |-> m.layers[i].mediaType,
                    size |-> m.layers[i].size,
                    digest |-> m.layers[i].digest]]]

\* the body handed to the manifest PUT
manifestBodyRebuiltFromFiles(f, m, cfgSize) ==
    IF f \in {"client", "syncImage", "tarball"} THEN newManifest(m, cfgSize) ELSE m
manifestBody(f, m, cfgSize) ==
    IF f \in {"client", "syncImage"} THEN newManifest(m, cfgSize) ELSE m

\* the Content-Type of the manifest PUT of the client
putContentType == ManifestV2

FailSwallowed(kind) ==
    /\ pc' = "failed"
    /\ outcome' = "success"
    /\ error' = "none"
Fail(kind) ==
    /\ pc' = "failed"
    /\ outcome' = "failed"
    /\ error' = kind

\* the continuation after the last blob push: the manifest PUT is sent
IssuePut(cfgSize) ==
    /\ pc' = "putManifest"
    /\ putIssued' = TRUE
    /\ putBody' = manifestBody(flow, manifest, cfgSize)
    /\ putType' = putContentType

\* the test of the memory gate: if (totalUsed < MEMORY_THRESHOLD) return
memoryAvailableAtThreshold(m) == usedMemory(m) <= MEMORY_THRESHOLD
memoryAvailable(m) == usedMemory(m) < MEMORY_THRESHOLD

\* waitForMemoryAvailability of RegistryService: one poll.  The loop reads
\* nothing but the memory sample; the client is created and the manifest
\* GET sent when it returns.
waitForMemoryAvailability ==
    /\ pc = "gate"
    /\ \E m \in MemSamples :
         /\ mem' = m
         /\ pc' = IF memoryAvailable(m) THEN "getManifest" ELSE "gate"
    /\ UNCHANGED <<xvars, cvars, qvars, lastOp, flow, credential, contentType, manifest, idx,
                   configSize, blobs, tmpFiles, unlinkFailed, pushedOk, blobFailed,
                   putIssued, putBody, putType, outcome, error, wire>>

\* getManifest / getImageManifest answers; syncImage then posts for the
\* upload session of the config
getManifest ==
    /\ pc = "getManifest"
    /\ \/ /\ pc' = CASE flow = "tarball" -> "download"
                     [] flow = "syncImage" -> "streamPost"
                     [] OTHER -> "pull"
          /\ UNCHANGED <<outcome, error>>
       \/ Fail("ManifestNotFound")
    /\ UNCHANGED <<xvars, cvars, qvars, mem, lastOp, flow, credential, contentType, manifest,
                   idx, configSize, blobs, tmpFiles, unlinkFailed, pushedOk, blobFailed,
                   putIssued, putBody, putType, wire>>

\* pullBlobAsStream returns { stream, size }: the stream carries the bytes of
\* the blob or other bytes; tarball mode opens the temp file for writing,
\* the other flows go on to the push.  In the client of saveImage.ts the
\* push is pushBlobStream(uploadUrl, stream, digest, size): it builds the PUT
\* from the session URL streamBlob or syncImage obtained before the pull.
OpenStream(w) ==
    \E cl \in ContentLengths(blobAt(manifest, idx)), intact \in BOOLEAN :
       LET opened == [w EXCEPT !.corrupt = @ \/ ~intact, !.open = @ \cup {idx}]
       IN /\ configSize' = IF idx = 0 /\ flow # "tarball" THEN cl ELSE configSize
          /\ CASE flow = "tarball" ->
                    /\ tmpFiles' = tmpFiles
                                      \cup {tmpPath(digestOf(blobAt(manifest, idx).digest))}
                    /\ pc' = "pipeline"
                    /\ wire' = opened
                    /\ UNCHANGED <<blobFailed, outcome, error>>
               [] flow \in {"relay", "syncImage"} ->
                    /\ UNCHANGED tmpFiles
                    /\ IF urlOutcome(flow, w.location) = "ok"
                       THEN /\ pc' = "blobPut"
                            /\ wire' = [opened EXCEPT
                                          !.used = @ \cup {w.held},
                                          !.reuse = @ \/ w.held \in w.used,
                                          !.badSessionPut = @ \/ ~w.sessionOk,
                                          !.location = "none",
                                          !.sessionOk = FALSE]
                            /\ UNCHANGED <<blobFailed, outcome, error>>
                       ELSE /\ Fail(urlOutcome(flow, w.location))
                            /\ blobFailed' = TRUE
                            /\ wire' = opened
               [] OTHER ->
                    /\ pc' = "push"
                    /\ wire' = opened
                    /\ UNCHANGED <<tmpFiles, blobFailed, outcome, error>>

PullFailed(kind, w) ==
    /\ Fail(kind)
    /\ blobFailed' = TRUE
    /\ wire' = w
    /\ UNCHANGED <<configSize, tmpFiles>>

\* the first GET of pullBlobAsStream answers; a redirect with a Location is
\* followed by a second GET (sent by axios itself in the client of
\* RegistryService, which has no credential)
GetAnswered ==
    \E resp \in GetResponses :
       LET w == IF resp.status \in {302, 307} /\ ~resp.location
                THEN [wire EXCEPT !.unlocated = @ \cup {idx}]
                ELSE wire
       IN CASE pullOutcome(flow, resp) = "stream" -> OpenStream(w)
            [] pullOutcome(flow, resp) = "follow" ->
                 /\ pc' = "redirect"
                 /\ wire' = [w EXCEPT
                               !.secondGets = @ \cup {idx},
                               !.followUpAuth =
                                  @ \/ "Authorization" \in followUpHeaders(credential)]
                 /\ UNCHANGED <<configSize, tmpFiles, blobFailed, outcome, error>>
            [] OTHER -> PullFailed(pullOutcome(flow, resp), w)

\* buffer mode, syncImage and streamBlob: pullBlobAsStream of the blob at
\* position idx
pullBlobAsStream ==
    /\ pc = "pull"
    /\ GetAnswered
    /\ UNCHANGED <<xvars, cvars, qvars, mem, lastOp, flow, credential, contentType, manifest,
                   idx, blobs, unlinkFailed, pushedOk, putIssued, putBody, putType>>

\* tarball mode, downloadBlobToFile: the pull of the blob at position idx
downloadBlobToFile ==
    /\ pc = "download"
    /\ GetAnswered
    /\ UNCHANGED <<xvars, cvars, qvars, mem, lastOp, flow, credential, contentType, manifest,
                   idx, blobs, unlinkFailed, pushedOk, putIssued, putBody, putType>>

\* the GET of the redirect location answers
followRedirect ==
    /\ pc = "redirect"
    /\ OpenStream(wire) \/ PullFailed("UnexpectedStatus", wire)
    /\ UNCHANGED <<xvars, cvars, qvars, mem, lastOp, flow, credential, contentType, manifest,
                   idx, blobs, unlinkFailed, pushedOk, putIssued, putBody, putType>>

\* blob.filePath of blobs[i], the file pushBlobFromFile reads
blobFilePathFirst(bs, i) == tmpPath(digestOf(bs[1]))
blobFilePath(bs, i) == tmpPath(digestOf(bs[i]))

\* startBlobUpload, called by pushBlobStream and pushBlobFromFile for the
\* blob at hand: the POST and its answer.  The registry hands out a new
\* session URL each time; with a session at hand the blob PUT is sent
\* (pushBlobFromFile opens the temp file for reading as its body).  When
\* the call throws nobody touches the stream the pull returned.  The
\* answers are taken by what the client makes of them.
startBlobUpload ==
    /\ pc \in {"push", "pushFile"}
    /\ \E ans \in { [out |-> sessionOutcome(flow, resp), opened |-> sessionOpened(resp)] :
                      resp \in PostResponses } :
         LET fresh == wire.posts + 1
             url == uploadUrlUsed(fresh, wire.held)
             pos == IF pc = "push" THEN idx ELSE idx - 1
             sent == [wire EXCEPT !.posted = @ \cup {pos}]
         IN IF ans.out = "ok"
            THEN /\ pc' = IF pc = "push" THEN "blobPut" ELSE "filePut"
                 /\ wire' = [sent EXCEPT
                               !.reads = IF pc = "pushFile"
                                         THEN @ \cup {<<pos, blobFilePath(blobs, idx)>>}
                                         ELSE @,
                               !.posts = fresh,
                               !.held = fresh,
                               !.used = @ \cup {url},
                               !.reuse = @ \/ url \in wire.used,
                               !.stale = @ \/ url # fresh,
                               !.badSessionPut = @ \/ ~ans.opened]
                 /\ UNCHANGED <<blobFailed, outcome, error>>
            ELSE /\ Fail(ans.out)
                 /\ blobFailed' = TRUE
                 /\ wire' = sent
    /\ UNCHANGED <<xvars, cvars, qvars, mem, lastOp, flow, credential, contentType, manifest,
                   idx, configSize, blobs, tmpFiles, unlinkFailed, pushedOk, putIssued,
                   putBody, putType>>

\* streamBlob, and syncImage for each blob, open the session before the
\* pull: the POST is sent for the blob at idx and answers.  streamBlob of
\* client.ts then calls pushBlobStream(uploadUrl, stream, digest, size),
\* whose first parameter is the repository: pushBlobStream opens its own
\* session and the first one is never sent a PUT.
streamBlob ==
    /\ pc = "streamPost"
    /\ \E ans \in { [status |-> resp.status, url |-> sessionUrl(flow, resp),
                       opened |-> sessionOpened(resp)] : resp \in PostResponses } :
         LET sent == [wire EXCEPT !.posted = @ \cup {idx}]
         IN IF ans.status = 202
            THEN /\ pc' = "pull"
                 /\ wire' = IF ans.url # "none"
                            THEN [sent EXCEPT !.posts = @ + 1, !.held = wire.posts + 1,
                                              !.location = ans.url,
                                              !.sessionOk = ans.opened]
                            ELSE [sent EXCEPT !.held = 0, !.location = "none",
                                              !.sessionOk = ans.opened]
                 /\ UNCHANGED <<blobFailed, outcome, error>>
            ELSE /\ Fail("UploadSessionRejected")
                 /\ blobFailed' = TRUE
                 /\ wire' = sent
    /\ UNCHANGED <<xvars, cvars, qvars, mem, lastOp, flow, credential, contentType, manifest,
                   idx, configSize, blobs, tmpFiles, unlinkFailed, pushedOk, putIssued,
                   putBody, putType>>

\* streamBlobchunk relays one blob, await by await: the POST of the upload
\* session (status 202 only, the URL read from the body), the GET of the
\* blob, the GET of the redirect target, and the PUT of the pulled stream
\* to `${location}&digest=${digest}` through the axios instance (status 201
\* only).  A session URL of 0 is a URL no POST returned.
streamBlobchunk ==
    /\ \/ /\ pc = "chunkPost"
          /\ \E resp \in PostResponses :
               LET sent == [wire EXCEPT !.posted = @ \cup {idx}]
               IN IF resp.status = 202
                  THEN /\ pc' = "chunkGet"
                       /\ wire' = IF resp.location # "none" \/ resp.body # "none"
                                  THEN [sent EXCEPT
                                          !.posts = @ + 1,
                                          !.held = IF sessionUrl(flow, resp) # "none"
                                                   THEN wire.posts + 1 ELSE 0,
                                          !.location = sessionUrl(flow, resp),
                                          !.sessionOk = sessionOpened(resp)]
                                  ELSE sent
                       /\ UNCHANGED <<blobFailed, outcome, error>>
                  ELSE /\ Fail("UploadSessionRejected")
                       /\ blobFailed' = TRUE
                       /\ wire' = sent
          /\ UNCHANGED pushedOk
       \/ /\ pc \in {"chunkGet", "chunkRedirect"}
          /\ \E resp \in GetResponses, intact \in BOOLEAN :
               LET got == IF pc = "chunkRedirect"
                          THEN IF resp.status = 200 THEN "stream" ELSE "UnexpectedStatus"
                          ELSE pullOutcome(flow, resp)
               IN CASE got = "stream" ->
                         /\ pc' = "chunkPut"
                         /\ wire' = [wire EXCEPT
                                       !.corrupt = @ \/ ~intact,
                                       !.open = @ \cup {idx},
                                       !.used = @ \cup {wire.held},
                                       !.badSessionPut = @ \/ ~wire.sessionOk]
                         /\ UNCHANGED <<blobFailed, outcome, error>>
                    [] got = "follow" ->
                         /\ pc' = "chunkRedirect"
                         /\ wire' = [wire EXCEPT
                                       !.secondGets = @ \cup {idx},
                                       !.followUpAuth =
                                          @ \/ "Authorization" \in followUpHeaders(credential)]
                         /\ UNCHANGED <<blobFailed, outcome, error>>
                    [] OTHER ->
                         /\ Fail(got)
                         /\ blobFailed' = TRUE
                         /\ wire' = IF got = "MissingRedirectLocation"
                                    THEN [wire EXCEPT !.unlocated = @ \cup {idx}]
                                    ELSE wire
          /\ UNCHANGED pushedOk
       \/ /\ pc = "chunkPut"
          /\ \E status \in PutStatuses :
               IF pushAccepted(status)
               THEN /\ pushedOk' = pushedOk \cup {idx}
                    /\ wire' = [wire EXCEPT !.open = @ \ {idx}]
                    /\ pc' = "done"
                    /\ outcome' = "success"
                    /\ UNCHANGED <<blobFailed, error>>
               ELSE /\ Fail("BlobPushRejected")
                    /\ blobFailed' = TRUE
                    /\ \E consumed \in BOOLEAN :
                          wire' = [wire EXCEPT !.open = IF consumed THEN @ \ {idx} ELSE @]
                    /\ UNCHANGED pushedOk
    /\ UNCHANGED <<xvars, cvars, qvars, mem, lastOp, flow, credential, contentType, manifest,
                   idx, configSize, blobs, tmpFiles, unlinkFailed, putIssued, putBody,
                   putType>>

\* pushBlobStream of the blob at position idx: the PUT answers; after the
\* last blob of a sync the manifest PUT is sent, before that syncImage
\* posts for the next session and the others pull the next blob.  In the
\* call streamBlob of client.ts makes, the parameter `stream` is the digest
\* string and `digest` the pulled stream: the body of the PUT is the string,
\* the blob is not pushed and nobody reads or destroys the stream the pull
\* returned.
pushBlobStream ==
    /\ pc = "blobPut"
    /\ \E status \in PutStatuses :
         IF pushAccepted(status)
         THEN /\ pushedOk' = IF flow = "stream" THEN pushedOk ELSE pushedOk \cup {idx}
              /\ wire' = [wire EXCEPT !.non201Accepted = @ \/ status # 201,
                                      !.open = IF flow = "stream" THEN @ ELSE @ \ {idx}]
              /\ IF flow \in StreamFlows
                 THEN /\ pc' = "done"
                      /\ outcome' = "success"
                      /\ UNCHANGED <<idx, putIssued, putBody, putType, error>>
                 ELSE /\ IF lastBlob(idx, Len(manifest.layers))
                         THEN IssuePut(configSize) /\ UNCHANGED idx
                         ELSE /\ idx' = idx + 1
                              /\ pc' = IF flow = "syncImage" THEN "streamPost" ELSE "pull"
                              /\ UNCHANGED <<putIssued, putBody, putType>>
                      /\ UNCHANGED <<outcome, error>>
              /\ UNCHANGED blobFailed
         ELSE /\ Fail("BlobPushRejected")
              /\ blobFailed' = TRUE
              /\ \E consumed \in BOOLEAN :
                    wire' = [wire EXCEPT !.open = IF consumed /\ flow # "stream"
                                                 THEN @ \ {idx} ELSE @]
              /\ UNCHANGED <<pushedOk, idx, putIssued, putBody, putType>>
    /\ UNCHANGED <<xvars, cvars, qvars, mem, lastOp, flow, credential, contentType, manifest,
                   configSize, blobs, tmpFiles, unlinkFailed>>

\* tarball mode, downloadBlobToFile: the pipeline into the temp file ends;
\* stream.pipeline destroys the stream when it fails
pipelineAsync ==
    /\ pc = "pipeline"
    /\ \/ /\ blobs' = Append(blobs, blobAt(manifest, idx).digest)
          /\ IF lastBlob(idx, Len(manifest.layers))
             THEN idx' = 1 /\ pc' = "pushFile"
             ELSE idx' = idx + 1 /\ pc' = "download"
          /\ wire' = [wire EXCEPT
                        !.open = @ \ {idx},
                        !.drained = @ \cup {<<idx, tmpPath(digestOf(blobAt(manifest, idx).digest))>>}]
          /\ UNCHANGED <<blobFailed, outcome, error>>
       \/ /\ Fail("PipelineFailed")
          /\ blobFailed' = TRUE
          /\ wire' = [wire EXCEPT !.open = @ \ {idx}]
          /\ UNCHANGED <<blobs, idx>>
    /\ UNCHANGED <<xvars, cvars, qvars, mem, lastOp, flow, credential, contentType, manifest,
                   configSize, tmpFiles, unlinkFailed, pushedOk, putIssued, putBody,
                   putType>>

\* tarball mode: the PUT of pushBlobFromFile of blobs[idx] answers; after
\* the last one the manifest PUT is sent
pushBlobFromFile ==
    /\ pc = "filePut"
    /\ \E status \in PutStatuses :
         IF pushAccepted(status)
         THEN /\ pushedOk' = pushedOk \cup {idx - 1}
              /\ wire' = [wire EXCEPT !.non201Accepted = @ \/ status # 201]
              /\ IF lastBlob(idx, Len(blobs))
                 THEN IssuePut(configSize) /\ UNCHANGED idx
                 ELSE /\ idx' = idx + 1
                      /\ pc' = "pushFile"
                      /\ UNCHANGED <<putIssued, putBody, putType>>
              /\ UNCHANGED <<blobFailed, outcome, error>>
         ELSE /\ Fail("BlobPushRejected")
              /\ blobFailed' = TRUE
              /\ UNCHANGED <<pushedOk, idx, putIssued, putBody, putType, wire>>
    /\ UNCHANGED <<xvars, cvars, qvars, mem, lastOp, flow, credential, contentType, manifest,
                   configSize, blobs, tmpFiles, unlinkFailed>>

\* the paths of the blobs array, the files step 5 unlinks
blobPaths(bs) == { tmpPath(digestOf(bs[i])) : i \in DOMAIN bs }

\* the cleanup loop over `paths`, the filePath of each entry of blobs in
\* order: unlinkSync throws when the file is gone (a path listed twice is
\* gone at its second turn) and for the files of `failing`; each unlink has
\* its own try/catch, which logs.  The files left and the paths logged.
RECURSIVE afterUnlinks(_, _, _)
afterUnlinksStopAtFailure(present, paths, failing) ==
    [files |-> IF failing = {} THEN present \ {paths[i] : i \in DOMAIN paths}
               ELSE present,
     logged |-> failing]
afterUnlinks(present, paths, failing) ==
    IF paths = <<>>
    THEN [files |-> present, logged |-> {}]
    ELSE LET thrown == Head(paths) \notin present \/ Head(paths) \in failing
             rest == afterUnlinks(IF thrown THEN present ELSE present \ {Head(paths)},
                                  Tail(paths), failing)
         IN [files |-> rest.files,
             logged |-> rest.logged \cup (IF thrown THEN {Head(paths)} ELSE {})]

\* the manifest PUT answers; tarball mode then unlinks every temp file,
\* logging the unlinks that throw
putManifest ==
    /\ pc = "putManifest"
    /\ \/ /\ pc' = "done"
          /\ outcome' = "success"
          /\ IF flow = "tarball"
             THEN \E failing \in SUBSET (tmpFiles \cap blobPaths(blobs)) :
                     LET left == afterUnlinks(tmpFiles,
                                              [i \in DOMAIN blobs |-> blobFilePath(blobs, i)],
                                              failing)
                     IN /\ unlinkFailed' = left.logged
                        /\ tmpFiles' = left.files
             ELSE UNCHANGED <<tmpFiles, unlinkFailed>>
          /\ UNCHANGED error
       \/ /\ Fail("ManifestPushRejected")
          /\ UNCHANGED <<tmpFiles, unlinkFailed>>
    /\ UNCHANGED <<xvars, cvars, qvars, mem, lastOp, flow, credential, contentType, manifest,
                   idx, configSize, blobs, pushedOk, blobFailed, putIssued, putBody,
                   putType, wire>>

\* nothing transferred yet
Untouched ==
    /\ idx = 0
    /\ configSize = 0
    /\ blobs = <<>>
    /\ tmpFiles = {}
    /\ unlinkFailed = {}
    /\ pushedOk = {}
    /\ blobFailed = FALSE
    /\ putIssued = FALSE
    /\ putBody = <<>>
    /\ putType = <<>>
    /\ error = "none"
    /\ wire = NoWire

\* the source serves the manifest under its own media type.  The sync
\* flows copy the size of a descriptor and never compare it: one blob size
\* stands for all.  They copy the media type of a layer and never read it:
\* syncImage is followed on layers of one type.
SyncStart ==
    /\ flow \in SyncFlows
    /\ credential \in CredentialsOf(flow)
    /\ manifest \in Manifests(MaxLayers)
    /\ \A i \in Positions(manifest) : blobAt(manifest, i).size = MAX_BLOB_SIZE_BYTES
    /\ flow = "syncImage" =>
          \A i \in DOMAIN manifest.layers : manifest.layers[i].mediaType = LayerType
    /\ contentType = manifest.mediaType
    /\ pc = IF flow \in {"client", "syncImage"} THEN "getManifest" ELSE "gate"
    /\ outcome = "running"
    /\ Untouched
    /\ index = <<>>
    /\ cp = <<>>

\* streamBlob and streamBlobchunk relay one blob, here the config of an
\* image without layers
StreamStart ==
    /\ flow \in StreamFlows
    /\ credential \in CredentialsOf(flow)
    /\ manifest \in Manifests(0)
    /\ contentType = <<>>
    /\ pc = IF flow = "chunk" THEN "chunkPost" ELSE "streamPost"
    /\ outcome = "running"
    /\ Untouched
    /\ index = <<>>
    /\ cp = <<>>

(***************************************************************************)
(* RegistryCopyService.copyImage.  Copy 0 is the call of the caller; when  *)
(* it fetches an index, copies 1..n are the recursive calls, one per       *)
(* entry.  Every child of the index is a concrete image.                   *)
(***************************************************************************)
MaxEntries == 3
MAX_MEMORY_MB == 300

ManifestList == <<"application/vnd.docker.distribution", "manifest.list", "v2+json">>
ImageIndex == <<"application/vnd.oci", "image.index", "v1+json">>
IndexTypes == {ManifestList, ImageIndex}

ChildDigest(i) == <<"sha256", CASE i = 1 -> "c1" [] i = 2 -> "c2" [] i = 3 -> "c3"
                                [] OTHER -> "c4">>

Indexes(n) ==
    { [schemaVersion |-> 2, mediaType |-> mt,
       manifests |-> [i \in 1..k |->
                        [mediaType |-> ManifestV2, size |-> 1,
                         digest |-> digestString(ChildDigest(i))]]] :
        mt \in IndexTypes, k \in 0..n }

\* the image every entry of an index refers to: a config and one foreign
\* layer.  A child copy is the same copyImage as the root: it fetches the
\* manifest, leaves the foreign layer out of its layer tasks, takes the
\* config through HEAD, download, POST and PUT with every answer the root
\* can get, and PUTs the manifest.
SmallBlobs == [d \in Digests |-> MAX_BLOB_SIZE_BYTES]
ChildManifest ==
    [schemaVersion |-> 2, mediaType |-> ManifestV2,
     config |-> Descriptor(ConfigType, DigestA, SmallBlobs),
     layers |-> <<Descriptor(ForeignLayerType, DigestB, SmallBlobs)>>]

CopyIds == 0..MaxEntries

\* the Content-Type the source may serve a document with: its own media
\* type, a media type of the other kind, or none (fetchManifest reads '')
HeadersFor(doc) ==
    {doc.mediaType, <<>>}
      \cup (IF doc.mediaType \in IndexTypes THEN ConcreteTypes ELSE IndexTypes)

\* the dispatch of copyImage on the Content-Type of the fetched document
isIndexTypeDockerOnly(mediaType) == mediaType = ManifestList
isIndexType(mediaType) ==
    includes(mediaType, "manifest.list") \/ includes(mediaType, "image.index")

\* manifest.layers.filter(l => !l.mediaType.includes('foreign')), as positions
layerBlobsAll(m) == [i \in 1..Len(m.layers) |-> i]
layerBlobs(m) ==
    SelectSeq([i \in 1..Len(m.layers) |-> i],
              LAMBDA i : ~includes(m.layers[i].mediaType, "foreign"))

\* the answers to the HEAD of a blob: not ok, no Content-Length, its size
HeadResponses(desc) ==
    {[ok |-> FALSE, len |-> -1], [ok |-> TRUE, len |-> -1],
     [ok |-> TRUE, len |-> desc.size]}

checkBlobSize(resp) ==
    IF ~resp.ok THEN "HeadFailed"
    ELSE IF resp.len < 0 THEN "UnknownBlobSize"
    ELSE IF resp.len > MAX_BLOB_SIZE_BYTES THEN "BlobTooLarge"
    ELSE "ok"

RssSamples == {MAX_MEMORY_MB - 1, MAX_MEMORY_MB}
isMemorySafe(rssMB) == rssMB < MAX_MEMORY_MB

\* uploadViaPipeline: the status of the PUT resolves the upload
uploadAccepted(status) == status >= 200 /\ status < 300

\* uploadViaPipeline: the answer of the POST is used, whatever its status,
\* when it has a Location that new URL() parses; a path alone does not
uploadLocated(resp) ==
    CASE resp.location = "none" -> "MissingUploadLocation"
      [] resp.location = "relative" -> "InvalidURL"
      [] OTHER -> "ok"

\* the outcomes of the step that ends stage `stage` of the copy of one blob;
\* `odd` marks an answer the upload goes on with although the protocol does
\* not make it a success (a POST other than 202, a PUT other than 201)
StageResults(stage, desc) ==
    CASE stage = "head" ->
           { [res |-> IF checkBlobSize(resp) # "ok" THEN checkBlobSize(resp)
                      ELSE IF ~isMemorySafe(rss) THEN "MemoryUnsafe" ELSE "ok",
              odd |-> FALSE] :
               resp \in HeadResponses(desc), rss \in RssSamples }
      [] stage = "download" ->
           { [res |-> r, odd |-> FALSE] : r \in {"ok", "DownloadFailed"} }
      [] stage = "post" ->
           { [res |-> uploadLocated(resp),
              odd |-> uploadLocated(resp) = "ok" /\ ~sessionOpened(resp)] :
               resp \in PostResponses }
      [] stage = "put" ->
           { [res |-> IF uploadAccepted(status) THEN "ok" ELSE "BlobPushRejected",
              odd |-> uploadAccepted(status) /\ status # 201] :
               status \in PutStatuses }

\* the wire after the step that ends `stage` with result r
seen(w, stage, r) ==
    [w EXCEPT !.badSessionPut = @ \/ (stage = "post" /\ r.odd),
              !.non201Accepted = @ \/ (stage = "put" /\ r.odd)]

NextStage(stage) ==
    CASE stage = "head" -> "download"
      [] stage = "download" -> "post"
      [] stage = "post" -> "put"
      [] stage = "put" -> "done"

ActiveStages == {"head", "download", "post", "put"}

\* the concurrency of pLimit(2)
LIMIT == 2
activeCount(tasks) == Cardinality({k \in DOMAIN tasks : tasks[k] \in ActiveStages})

\* p-limit: start queued tasks, first come first served, while fewer than
\* LIMIT are active
RECURSIVE startQueued(_)
startQueuedAll(tasks) ==
    [k \in DOMAIN tasks |-> IF tasks[k] = "queued" THEN "head" ELSE tasks[k]]
startQueued(tasks) ==
    IF activeCount(tasks) < LIMIT /\ \E k \in DOMAIN tasks : tasks[k] = "queued"
    THEN LET k == CHOOSE j \in DOMAIN tasks :
                    /\ tasks[j] = "queued"
                    /\ \A h \in DOMAIN tasks : tasks[h] = "queued" => j <= h
         IN startQueued([tasks EXCEPT ![k] = "head"])
    ELSE tasks

UnusedCopy ==
    [pc |-> "unused", srcRef |-> "", destRef |-> "", branch |-> "none",
     tasks |-> <<>>, cfg |-> "none", dl |-> {}, up |-> {},
     put |-> FALSE, body |-> <<>>, ctype |-> <<>>, err |-> "none"]

\* Promise.all over the child copies has resolved
childrenSucceededAny(cps, n) == \E i \in 1..n : cps[i].pc = "done"
childrenSucceeded(cps, n) == \A i \in 1..n : cps[i].pc = "done"

NumEntries == IF index = <<>> THEN 0 ELSE Len(index.manifests)

\* what fetchManifest of copy c returns: the Content-Type header and the
\* parsed body; a child is served under the media type of its entry
fetchedType(c) == IF c = 0 THEN contentType ELSE ManifestV2
fetchedBody(c) == IF c = 0 /\ index # <<>> THEN index ELSE manifest

\* uploadManifest(dest, manifest, mediaType, reference) of copy c is called
putSent(rec, c) ==
    [rec EXCEPT !.pc = "putManifest", !.put = TRUE,
                !.body = fetchedBody(c), !.ctype = fetchedType(c)]

\* copy c settles; a settled child resolves or rejects the Promise.all the
\* root awaits, and the root then sends the index PUT or fails
settle(cps, c, result, kind) ==
    LET own == [cps EXCEPT ![c].pc = result,
                           ![c].err = IF result = "failed" THEN kind ELSE @]
    IN IF c = 0 \/ own[0].pc # "children" THEN own
       ELSE IF result = "failed"
            THEN [own EXCEPT ![0].pc = "failed", ![0].err = kind]
       ELSE IF childrenSucceeded(own, NumEntries)
            THEN [own EXCEPT ![0] = putSent(@, 0)]
       ELSE own

\* the concrete branch begins: the layer tasks are handed to the limiter;
\* with no layer to transfer the config HEAD is sent at once
startConcrete(cps, c, m) ==
    LET tasks == startQueued([k \in 1..Len(layerBlobs(m)) |-> "queued"])
    IN IF tasks = <<>>
       THEN [cps EXCEPT ![c].branch = "concrete", ![c].pc = "config",
                        ![c].cfg = "head"]
       ELSE [cps EXCEPT ![c].branch = "concrete", ![c].pc = "layers",
                        ![c].tasks = tasks]

\* the index branch begins: every child copy is called and sends its fetch;
\* over an index without entries Promise.all resolves at once and the index
\* PUT is sent
startChildren(cps, idxDoc) ==
    [c \in CopyIds |->
       IF c = 0
       THEN IF idxDoc.manifests = <<>>
            THEN putSent([cps[0] EXCEPT !.branch = "index"], 0)
            ELSE [cps[0] EXCEPT !.branch = "index", !.pc = "children"]
       ELSE IF c <= Len(idxDoc.manifests)
            THEN [UnusedCopy EXCEPT !.pc = "fetch",
                                    !.srcRef = idxDoc.manifests[c].digest,
                                    !.destRef = idxDoc.manifests[c].digest]
       ELSE cps[c]]

\* fetchManifest of copy c answers
fetchManifest(c) ==
    /\ flow = "copy"
    /\ cp[c].pc = "fetch"
    /\ \/ cp' = settle(cp, c, "failed", "ManifestNotFound")
       \/ cp' = LET body == fetchedBody(c)
                IN IF isIndexType(fetchedType(c))
                   THEN IF "manifests" \in DOMAIN body
                        THEN startChildren(cp, body)
                        ELSE settle([cp EXCEPT ![c].branch = "index"], c,
                                    "failed", "TypeError")
                   ELSE IF "layers" \in DOMAIN body
                        THEN startConcrete(cp, c, body)
                        ELSE settle([cp EXCEPT ![c].branch = "concrete"], c,
                                    "failed", "TypeError")
    /\ UNCHANGED <<xvars, qvars, mem, lastOp, svars, index, wire>>

\* one step of the limited task of layer task k of copy c
layerTask(c, k) ==
    /\ flow = "copy"
    /\ k \in DOMAIN cp[c].tasks
    /\ cp[c].tasks[k] \in ActiveStages
    /\ LET stage == cp[c].tasks[k]
           pos == layerBlobs(manifest)[k]
       IN \E r \in StageResults(stage, blobAt(manifest, pos)) :
            /\ wire' = seen(wire, stage, r)
            /\ IF r.res = "ok"
               THEN LET moved == [cp[c].tasks EXCEPT ![k] = NextStage(stage)]
                        tasks == IF NextStage(stage) = "done" THEN startQueued(moved)
                                 ELSE moved
                        rec == [cp[c] EXCEPT
                                  !.tasks = tasks,
                                  !.dl = IF stage = "head" THEN @ \cup {pos} ELSE @,
                                  !.up = IF stage = "put" THEN @ \cup {pos} ELSE @]
                    IN cp' = [cp EXCEPT ![c] =
                                IF rec.pc = "layers"
                                   /\ \A j \in DOMAIN tasks : tasks[j] = "done"
                                THEN [rec EXCEPT !.pc = "config", !.cfg = "head"]
                                ELSE rec]
               ELSE LET tasks == startQueued([cp[c].tasks EXCEPT ![k] = "failed"])
                        cps == [cp EXCEPT ![c].tasks = tasks]
                    IN cp' = IF cp[c].pc = "layers" THEN settle(cps, c, "failed", r.res)
                             ELSE cps
    /\ UNCHANGED <<xvars, qvars, mem, lastOp, svars, index>>

\* one step of the transfer of the config blob of copy c; after its upload
\* the manifest PUT is sent
configBlob(c) ==
    /\ flow = "copy"
    /\ cp[c].pc = "config"
    /\ \E r \in StageResults(cp[c].cfg, manifest.config) :
         /\ wire' = seen(wire, cp[c].cfg, r)
         /\ IF r.res = "ok"
            THEN LET rec == [cp[c] EXCEPT
                               !.cfg = NextStage(@),
                               !.dl = IF cp[c].cfg = "head" THEN @ \cup {0} ELSE @,
                               !.up = IF cp[c].cfg = "put" THEN @ \cup {0} ELSE @]
                 IN cp' = [cp EXCEPT ![c] =
                             IF rec.cfg = "done"
                             THEN putSent(rec, c)
                             ELSE rec]
            ELSE cp' = settle(cp, c, "failed", r.res)
    /\ UNCHANGED <<xvars, qvars, mem, lastOp, svars, index>>

\* uploadManifest of copy c answers
uploadManifest(c) ==
    /\ flow = "copy"
    /\ cp[c].pc = "putManifest"
    /\ \/ cp' = settle(cp, c, "done", "none")
       \/ cp' = settle(cp, c, "failed", "ManifestPushRejected")
    /\ UNCHANGED <<xvars, qvars, mem, lastOp, svars, index, wire>>

CopyStart ==
    /\ flow = "copy"
    /\ credential = "none"
    /\ \/ /\ index = <<>>
          /\ manifest \in Manifests(MaxLayers)
          /\ contentType \in HeadersFor(manifest)
       \/ /\ index \in Indexes(MaxEntries)
          /\ manifest = ChildManifest
          /\ contentType \in HeadersFor(index)
    /\ cp = [c \in CopyIds |->
               IF c = 0 THEN [UnusedCopy EXCEPT !.pc = "fetch", !.srcRef = "latest",
                                                !.destRef = "stable"]
               ELSE UnusedCopy]
    /\ pc = "idle"
    /\ outcome = "none"
    /\ Untouched

Init ==
    /\ QueueStart /\ (SyncStart \/ StreamStart \/ CopyStart)
    /\ NoCancel /\ NoMetrics /\ NoJobs /\ NoSave /\ NoCalls

Next ==
    \/ waitForMemoryAvailability
    \/ getManifest
    \/ pullBlobAsStream
    \/ followRedirect
    \/ startBlobUpload
    \/ streamBlob
    \/ streamBlobchunk
    \/ pushBlobStream
    \/ downloadBlobToFile
    \/ pipelineAsync
    \/ pushBlobFromFile
    \/ putManifest
    \/ \E c \in CopyIds : fetchManifest(c)
    \/ \E c \in CopyIds : \E k \in 1..MaxLayers : layerTask(c, k)
    \/ \E c \in CopyIds : configBlob(c)
    \/ \E c \in CopyIds : uploadManifest(c)

Spec == Init /\ [][Next]_vars

(***************************************************************************)
(* SpecLimit: copyImage of one concrete manifest with more layers than the *)
(* limiter lets run at once.                                               *)
(***************************************************************************)
MaxCopyLayers == 3

LimitStart ==
    /\ QueueStart
    /\ flow = "copy"
    /\ credential = "none"
    /\ index = <<>>
    /\ manifest \in Manifests(MaxCopyLayers)
    /\ contentType = manifest.mediaType
    /\ cp = [c \in CopyIds |->
               IF c = 0 THEN [UnusedCopy EXCEPT !.pc = "fetch", !.srcRef = "latest",
                                                !.destRef = "stable"]
               ELSE UnusedCopy]
    /\ pc = "idle"
    /\ outcome = "none"
    /\ Untouched
    /\ NoCancel /\ NoMetrics /\ NoJobs /\ NoSave /\ NoCalls

NextLimit ==
    \/ fetchManifest(0)
    \/ \E k \in 1..MaxCopyLayers : layerTask(0, k)
    \/ configBlob(0)
    \/ uploadManifest(0)

SpecLimit == LimitStart /\ [][NextLimit]_vars

(***************************************************************************)
(* SpecGate: a RegistryService job and its caller.  The caller may ask for *)
(* the cancellation of the job it enqueued; the job has no parameter, token *)
(* or signal through which it could learn of it.  The poll loop runs for    *)
(* as long as the job is in the gate (weak fairness of the poll).           *)
(***************************************************************************)
cancel ==
    /\ outcome = "running"
    /\ ~cancelRequested
    /\ cancelRequested' = TRUE
    /\ UNCHANGED <<qvars, mem, lastOp, svars, cvars, wire, metrics, tvars, ovars, nvars>>

GateStart ==
    /\ QueueStart
    /\ SyncStart
    /\ flow \in {"buffer", "tarball"}
    /\ manifest.layers = <<>>
    /\ NoCancel /\ NoMetrics /\ NoJobs /\ NoSave /\ NoCalls

NextGate ==
    \/ cancel
    \/ waitForMemoryAvailability
    \/ getManifest
    \/ pullBlobAsStream
    \/ followRedirect
    \/ startBlobUpload
    \/ pushBlobStream
    \/ downloadBlobToFile
    \/ pipelineAsync
    \/ pushBlobFromFile
    \/ putManifest

SpecGate == GateStart /\ [][NextGate]_vars /\ WF_vars(waitForMemoryAvailability)

(***************************************************************************)
(* SpecTmp: syncImageWithTarball jobs running at the same time on the      *)
(* queue (its concurrency is 5 by default), seen through the files of      *)
(* TMP_DIR.  A job is followed from its first download on; blobs[1] is the  *)
(* config, the others are the layers.  The path of a temp file is a         *)
(* function of the digest alone.                                            *)
(***************************************************************************)
MaxJobs == 2
JobIds == 1..MaxJobs
JobBlobs == SeqsUpTo(Digests, 2) \ {<<>>}
Paths == { tmpPath(d) : d \in Digests }

\* path.join(TMP_DIR, ...) of blob k of job j
jobPath(j, k) == tmpPath(jobs[j].blobs[k])

\* job j touches the file at path p: it is another job's if that one made it
foreign(j, p) == files[p] # 0 /\ files[p] # j

jobFails(j, kind) == jobs' = [jobs EXCEPT ![j].pc = "failed", ![j].err = kind]

\* downloadBlobToFile of blob k: the pull answers and createWriteStream is
\* called on the path; the file is opened later, from the event loop
jobDownload(j) ==
    /\ jobs # <<>>
    /\ jobs[j].pc = "download"
    /\ \/ jobs' = [jobs EXCEPT ![j].pc = "open"]
       \/ jobFails(j, "UnexpectedStatus")
    /\ UNCHANGED <<files, trespass>>
    /\ UNCHANGED <<qvars, mem, lastOp, svars, cvars, wire, cancelRequested, metrics, ovars, nvars>>

\* the open of the write stream of blob k completes: the file is created
\* when the path is free (also when another job has unlinked it since the
\* pull answered) and truncated otherwise; the writes of the pipeline wait
\* for it, and go to the opened file also after its path is unlinked
createWriteStream(j) ==
    /\ jobs # <<>>
    /\ jobs[j].pc = "open"
    /\ LET p == jobPath(j, jobs[j].k)
       IN /\ files' = [files EXCEPT ![p] = IF @ = 0 THEN j ELSE @]
          /\ trespass' = (trespass \/ foreign(j, p))
          /\ jobs' = [jobs EXCEPT ![j].pc = "pipeline"]
    /\ UNCHANGED <<qvars, mem, lastOp, svars, cvars, wire, cancelRequested, metrics, ovars, nvars>>

\* downloadBlobToFile of blob k: the pipeline into the file ends; after the
\* last download the pushes begin
jobPipeline(j) ==
    /\ jobs # <<>>
    /\ jobs[j].pc = "pipeline"
    /\ \/ jobs' = [jobs EXCEPT
                      ![j].pc = IF lastBlob(jobs[j].k, Len(jobs[j].blobs))
                                THEN "pushFile" ELSE "download",
                      ![j].k = IF lastBlob(jobs[j].k, Len(jobs[j].blobs))
                               THEN 1 ELSE @ + 1]
       \/ jobFails(j, "PipelineFailed")
    /\ UNCHANGED <<files, trespass>>
    /\ UNCHANGED <<qvars, mem, lastOp, svars, cvars, wire, cancelRequested, metrics, ovars, nvars>>

\* pushBlobFromFile of blob k, first await: the POST of startBlobUpload
\* answers.  Its continuation calls createReadStream on the path (the open
\* is made later, from the event loop) and then statSync, which throws when
\* the file is gone: the request is not made and nothing listens to the
\* read stream.  With the file there the PUT is sent with the stream as
\* its body.  rd holds the read streams not yet opened: the path, and
\* whether the stream was handed to a request.
jobPush(j) ==
    /\ jobs # <<>>
    /\ jobs[j].pc = "pushFile"
    /\ \E resp \in PostResponses :
         LET p == jobPath(j, jobs[j].k)
         IN IF sessionOutcome("tarball", resp) # "ok"
            THEN jobFails(j, sessionOutcome("tarball", resp)) /\ UNCHANGED trespass
            ELSE IF files[p] = 0
            THEN /\ jobs' = [jobs EXCEPT ![j].pc = "failed", ![j].err = "ENOENT",
                                         ![j].rd = @ \cup {<<p, FALSE>>}]
                 /\ UNCHANGED trespass
            ELSE /\ trespass' = (trespass \/ foreign(j, p))
                 /\ jobs' = [jobs EXCEPT ![j].pc = "filePut",
                                         ![j].rd = @ \cup {<<p, TRUE>>}]
    /\ UNCHANGED files
    /\ UNCHANGED <<qvars, mem, lastOp, svars, cvars, wire, cancelRequested, metrics, ovars, nvars>>

\* the open of a read stream completes.  With the file gone (never there,
\* or unlinked by another job since) the stream raises ENOENT: an uncaught
\* exception when nothing listens; a stream handed to a request is the
\* transport's, which either fails the outstanding PUT with the error or
\* does not listen
createReadStream(j) ==
    /\ jobs # <<>>
    /\ \E r \in jobs[j].rd :
         LET p == r[1]
             rest == [jobs EXCEPT ![j].rd = @ \ {r}]
             outstanding == r[2] /\ jobs[j].pc = "filePut" /\ jobPath(j, jobs[j].k) = p
         IN IF files[p] # 0
            THEN /\ trespass' = (trespass \/ foreign(j, p))
                 /\ jobs' = rest
            ELSE /\ UNCHANGED trespass
                 /\ \/ jobs' = [rest EXCEPT ![j].uncaught = TRUE]
                    \/ /\ r[2]
                       /\ jobs' = IF outstanding
                                  THEN [rest EXCEPT ![j].pc = "failed", ![j].err = "ENOENT"]
                                  ELSE rest
    /\ UNCHANGED files
    /\ UNCHANGED <<qvars, mem, lastOp, svars, cvars, wire, cancelRequested, metrics, ovars, nvars>>

\* pushBlobFromFile of blob k, second await: the PUT answers
jobFilePut(j) ==
    /\ jobs # <<>>
    /\ jobs[j].pc = "filePut"
    /\ \E status \in PutStatuses :
         IF pushAccepted(status)
         THEN jobs' = [jobs EXCEPT
                         ![j].pc = IF lastBlob(jobs[j].k, Len(jobs[j].blobs))
                                   THEN "putManifest" ELSE "pushFile",
                         ![j].k = IF lastBlob(jobs[j].k, Len(jobs[j].blobs))
                                  THEN @ ELSE @ + 1]
         ELSE jobFails(j, "BlobPushRejected")
    /\ UNCHANGED <<files, trespass>>
    /\ UNCHANGED <<qvars, mem, lastOp, svars, cvars, wire, cancelRequested, metrics, ovars, nvars>>

\* the manifest PUT answers; on success every path of blobs is unlinked in
\* one synchronous loop (an unlink of a path already gone throws and is
\* logged)
jobPutManifest(j) ==
    /\ jobs # <<>>
    /\ jobs[j].pc = "putManifest"
    /\ \/ LET mine == [k \in DOMAIN jobs[j].blobs |-> jobPath(j, k)]
              left == afterUnlinks({p \in Paths : files[p] # 0}, mine, {})
          IN /\ files' = [p \in Paths |-> IF p \in left.files THEN files[p] ELSE 0]
             /\ trespass' = (trespass \/ \E k \in DOMAIN mine : foreign(j, mine[k]))
             /\ jobs' = [jobs EXCEPT ![j].pc = "done", ![j].logged = left.logged]
       \/ jobFails(j, "ManifestPushRejected") /\ UNCHANGED <<files, trespass>>
    /\ UNCHANGED <<qvars, mem, lastOp, svars, cvars, wire, cancelRequested, metrics, ovars, nvars>>

TmpStart ==
    /\ QueueStart /\ NoSync /\ index = <<>> /\ cp = <<>>
    /\ NoCancel /\ NoMetrics /\ NoSave /\ NoCalls
    /\ jobs \in [JobIds -> { [pc |-> "download", k |-> 1, blobs |-> b, err |-> "none",
                               uncaught |-> FALSE, logged |-> {}, rd |-> {}] :
                                 b \in JobBlobs }]
    /\ files = [p \in Paths |-> 0]
    /\ trespass = FALSE

NextTmp ==
    \/ \E j \in JobIds : jobDownload(j)
    \/ \E j \in JobIds : createWriteStream(j)
    \/ \E j \in JobIds : jobPipeline(j)
    \/ \E j \in JobIds : jobPush(j)
    \/ \E j \in JobIds : createReadStream(j)
    \/ \E j \in JobIds : jobFilePut(j)
    \/ \E j \in JobIds : jobPutManifest(j)

SpecTmp == TmpStart /\ [][NextTmp]_vars

(***************************************************************************)
(* Claims about the sync flows and copyImage.                              *)
(***************************************************************************)
\* the copies that took the concrete-manifest branch
ConcreteCopies ==
    { c \in CopyIds : cp[c].branch = "concrete" /\ cp[c].err # "TypeError" }

\* the positions copyImage transfers: the config and the non-foreign layers
Transferred(m) == {0} \cup { layerBlobs(m)[k] : k \in DOMAIN layerBlobs(m) }

\* C1: the manifest PUT of a concrete manifest is sent only after the push of
\* the config and of every transferred layer has succeeded, and never after a
\* blob pull or push of the invocation failed.
C1_PutAfterAllBlobs ==
    /\ putIssued => (Positions(manifest) \subseteq pushedOk /\ ~blobFailed)
    /\ flow = "copy" =>
         \A c \in ConcreteCopies :
            cp[c].put =>
               /\ Transferred(manifest) \subseteq cp[c].up
               /\ \A k \in DOMAIN cp[c].tasks : cp[c].tasks[k] = "done"

C1_Witness ==
    /\ flow = "buffer"
    /\ Len(manifest.layers) >= 2
    /\ putIssued
    /\ outcome = "success"

\* C2: the index PUT of the root is sent only after every child copy, made
\* under the digest of its entry at source and destination, has succeeded;
\* it is never sent once a child has failed.
C2_IndexAfterChildren ==
    (flow = "copy" /\ index # <<>> /\ cp[0].put) =>
        \A i \in 1..NumEntries :
           /\ cp[i].pc = "done"
           /\ cp[i].srcRef = index.manifests[i].digest
           /\ cp[i].destRef = index.manifests[i].digest

C2_Witness ==
    /\ flow = "copy"
    /\ index # <<>>
    /\ NumEntries >= 2
    /\ cp[0].pc = "done"

\* C3 (as stated): once syncImageWithTarball has settled, with success or
\* with a failure after at least one blob was downloaded, no temp file of
\* the invocation is left (unlinks that themselves failed set aside).
C3_NoTempFileLeft ==
    (/\ flow = "tarball"
     /\ outcome = "success" \/ (outcome = "failed" /\ blobs # <<>>)
     /\ unlinkFailed = {})
        => tmpFiles = {}

\* C8 (as stated): at most 2 child copies of an index run at the same time.
C8_AtMostTwoChildren ==
    flow = "copy" =>
        Cardinality({ c \in 1..MaxEntries :
                        cp[c].pc \notin {"unused", "done", "failed"} }) <= 2

\* C9 (as stated): when a blob the copy transfers exceeds the maximum size,
\* no download of any blob of that copy is ever started.
C9_NoTransferWhenTooLarge ==
    flow = "copy" =>
        \A c \in ConcreteCopies :
           (\E pos \in Transferred(manifest) :
               blobAt(manifest, pos).size > MAX_BLOB_SIZE_BYTES)
             => cp[c].dl = {}

\* C10 (as stated): the manifest PUT by a successful sync has the config
\* digest and size and, layer by layer, the digests and sizes of the source
\* manifest, whatever Content-Length the blob pulls returned.
C10_DigestsAndSizesPreserved ==
    (flow \in SyncFlows /\ outcome = "success") =>
        /\ putBody.config.digest = manifest.config.digest
        /\ putBody.config.size = manifest.config.size
        /\ Len(putBody.layers) = Len(manifest.layers)
        /\ \A i \in DOMAIN manifest.layers :
              /\ putBody.layers[i].digest = manifest.layers[i].digest
              /\ putBody.layers[i].size = manifest.layers[i].size

\* a layer descriptor marked as foreign (externally hosted)
isForeign(desc) == includes(desc.mediaType, "foreign")

\* C11 (as stated): the manifest body PUT by a successful sync is the source
\* manifest body, field by field and layer by layer.
C11_ManifestBodyIdentical ==
    /\ (flow \in SyncFlows /\ outcome = "success") => putBody = manifest
    /\ flow = "copy" =>
         \A c \in CopyIds : cp[c].pc = "done" => cp[c].body = fetchedBody(c)

\* C12: a copy of a concrete manifest never starts the download or the
\* upload of a foreign layer; when it sends the manifest PUT it has uploaded
\* the config and every other layer, and the body of the PUT has every
\* foreign descriptor as the source manifest has it.
C12_ForeignLayersSkipped ==
    flow = "copy" =>
        \A c \in ConcreteCopies :
           /\ \A i \in DOMAIN manifest.layers :
                 isForeign(manifest.layers[i]) => i \notin cp[c].dl \cup cp[c].up
           /\ cp[c].put =>
                 /\ 0 \in cp[c].up
                 /\ \A i \in DOMAIN manifest.layers :
                       IF isForeign(manifest.layers[i])
                       THEN cp[c].body.layers[i] = manifest.layers[i]
                       ELSE i \in cp[c].up

C12_Witness ==
    /\ flow = "copy"
    /\ index = <<>>
    /\ cp[0].pc = "done"
    /\ \E i, j \in DOMAIN manifest.layers :
          isForeign(manifest.layers[i]) /\ ~isForeign(manifest.layers[j])

\* C13: a copy takes the index branch exactly when the Content-Type its
\* fetch returned is the Docker manifest list or the OCI image index type,
\* and the concrete branch otherwise, whatever the body is.
C13_BranchByContentType ==
    flow = "copy" =>
        \A c \in CopyIds :
           cp[c].branch # "none" =>
              (cp[c].branch = "index" <=> fetchedType(c) \in IndexTypes)

C13_Witness ==
    /\ flow = "copy"
    /\ index = <<>>
    /\ contentType = ImageIndex
    /\ cp[0].branch = "index"

\* C14 (as stated): every manifest or index PUT carries as Content-Type the
\* media type the document was fetched with.
C14_PutContentTypeAsFetched ==
    /\ putIssued => putType = contentType
    /\ flow = "copy" =>
         \A c \in CopyIds : cp[c].put => cp[c].ctype = fetchedType(c)

\* C15 (as stated): when the blob GET of a pull is answered 302 or 307
\* without Location, the invocation fails with the missing-redirect-location
\* error; for that blob no second GET is sent, no POST for an upload session
\* is sent and nothing is pushed.
C15_NoFollowUpWithoutLocation ==
    \A pos \in wire.unlocated :
       /\ pc = "failed"
       /\ error = "MissingRedirectLocation"
       /\ pos \notin wire.secondGets
       /\ pos \notin wire.posted
       /\ pos \notin pushedOk

\* C16: the GET that follows a redirect never carries the Authorization
\* header of the client.
C16_NoAuthorizationOnRedirect == ~wire.followUpAuth

C16_Witness ==
    /\ credential = "basic"
    /\ wire.secondGets # {}
    /\ outcome = "success"

\* C17: every blob PUT of pushBlobStream, pushBlobFromFile and streamBlob
\* goes to the session URL returned by the POST that the same blob
\* operation made, and no session URL receives more than one PUT.
C17_FreshSessionPerPut ==
    flow # "chunk" =>
        /\ ~wire.reuse
        /\ ~wire.stale
        /\ wire.used \subseteq 1..wire.posts

C17_Witness ==
    /\ flow = "stream"
    /\ wire.posts = 2
    /\ wire.used = {2}
    /\ outcome = "success"

\* C18 (as stated): no blob PUT follows a POST that was answered with a
\* status other than 202 or without Location.
C18_NoPutAfterRejectedSession == ~wire.badSessionPut

\* C19 (as stated): a blob push succeeds only when its PUT is answered 201.
C19_Only201Succeeds == ~wire.non201Accepted

\* C20 (as stated): a sync in which a pull returned bytes that do not hash
\* to the requested digest never succeeds.
C20_CorruptNeverSucceeds ==
    (flow \in SyncFlows /\ outcome = "success") => ~wire.corrupt


(***************************************************************************)
(* saveImage.ts: saveAsOCIImageLayout, saveAsOCIImageLayoutWithgzip and    *)
(* saveAsDockerTar, one call at a time, await by await.  A buffer is a     *)
(* sequence of bytes; zlib.gzipSync is modelled by what matters of it      *)
(* here: its output is a gzip member, so it begins with the magic bytes    *)
(* and the method byte and is longer than its input.  A media type is the  *)
(* tuple of the pieces of its string, the suffix being the last piece.     *)
(* `layout` is the call and what it has written: the oci-layout file, the  *)
(* config blob, the layer blobs, the manifest blob and index.json, or the  *)
(* entries packed into the docker tar.  pullAndSaveAll is these calls one  *)
(* after the other, each on an output of its own.                          *)
(***************************************************************************)
MaxLayerBytes == 2
MaxSavedLayers == 2

Bytes == {31, 139, 0}
Buffers == SeqsUpTo(Bytes, MaxLayerBytes)
UseGzipValues == {"unset", "true", "false"}
SaveCalls == {"saveAsOCIImageLayout", "saveAsOCIImageLayoutWithgzip", "saveAsDockerTar"}

OCILayerTar == <<"application/vnd.oci", "image", "layer", "v1", "tar">>
OCILayerTarGzip == <<"application/vnd.oci", "image", "layer", "v1", "tar", "+gzip">>

isProbablyGzip(buffer) ==
    Len(buffer) >= 2 /\ buffer[1] = 31 /\ buffer[2] = 139

gzipSync(buffer) == <<31, 139, 8>> \o buffer

\* one turn of the loop of saveAsOCIImageLayout: the bytes written and the
\* media type recorded
savedLayer(layer, gz) ==
    LET shouldGzip == IF gz = "unset" THEN ~isProbablyGzip(layer) ELSE gz = "true"
        data == IF shouldGzip THEN gzipSync(layer) ELSE layer
    IN [data |-> data,
        mediaType |-> IF shouldGzip THEN OCILayerTarGzip ELSE OCILayerTar,
        size |-> Len(data)]

\* the call is one of the two that write an OCI layout and is at `at`
saving(at) ==
    /\ layout # <<>>
    /\ layout.call \in {"saveAsOCIImageLayout", "saveAsOCIImageLayoutWithgzip"}
    /\ layout.pc \in at

\* a write of the file system resolves, taking the call to `then`, or rejects
written(then) ==
    \/ layout' = then
    \/ layout' = [layout EXCEPT !.pc = "rejected"]

\* fs.ensureDir of outputDir and of blobs/sha256
ensureDir ==
    /\ saving({"ensureDir", "blobsDir"})
    /\ written([layout EXCEPT !.pc = IF @ = "ensureDir" THEN "ociLayout" ELSE "config"])
    /\ UNCHANGED <<qvars, mem, lastOp, svars, cvars, wire, cancelRequested, metrics,
                   tvars, image, useGzip, nvars>>

\* fs.writeJson of oci-layout and, last of all, of index.json
writeJson ==
    /\ saving({"ociLayout", "index"})
    /\ written(IF layout.pc = "ociLayout"
               THEN [layout EXCEPT !.ociLayout = TRUE, !.pc = "blobsDir"]
               ELSE [layout EXCEPT !.index = TRUE, !.pc = "resolved"])
    /\ UNCHANGED <<qvars, mem, lastOp, svars, cvars, wire, cancelRequested, metrics,
                   tvars, image, useGzip, nvars>>

\* writeBlob of the config, of the next layer (saveAsOCIImageLayoutWithgzip
\* compresses every layer) and of the manifest built from the layers written
writeBlob ==
    /\ saving({"config", "layer", "manifest"})
    /\ LET n == Len(layout.layers)
           gz == IF layout.call = "saveAsOCIImageLayoutWithgzip" THEN "true" ELSE useGzip
       IN written(CASE layout.pc = "config" ->
                         [layout EXCEPT !.config = TRUE,
                                        !.pc = IF image = <<>> THEN "manifest" ELSE "layer"]
                    [] layout.pc = "layer" ->
                         [layout EXCEPT !.layers = Append(@, savedLayer(image[n + 1], gz)),
                                        !.pc = IF n + 1 = Len(image) THEN "manifest"
                                               ELSE "layer"]
                    [] OTHER ->
                         [layout EXCEPT
                            !.manifest = [i \in DOMAIN layout.layers |->
                                            [mediaType |-> layout.layers[i].mediaType,
                                             size |-> layout.layers[i].size]],
                            !.pc = "index"])
    /\ UNCHANGED <<qvars, mem, lastOp, svars, cvars, wire, cancelRequested, metrics,
                   tvars, image, useGzip, nvars>>

\* saveAsDockerTar awaits nothing: every layer is packed as it was handed
\* in, then the config, manifest.json and repositories, and the call returns
saveAsDockerTar ==
    /\ layout # <<>>
    /\ layout.call = "saveAsDockerTar"
    /\ layout.pc = "ensureDir"
    /\ layout' = [layout EXCEPT !.tar = image, !.pc = "resolved"]
    /\ UNCHANGED <<qvars, mem, lastOp, svars, cvars, wire, cancelRequested, metrics,
                   tvars, image, useGzip, nvars>>

SaveStart ==
    /\ QueueStart /\ NoSync /\ index = <<>> /\ cp = <<>>
    /\ NoCancel /\ NoMetrics /\ NoJobs
    /\ image \in SeqsUpTo(Buffers, MaxSavedLayers) \ {<<>>}
    /\ useGzip \in UseGzipValues
    /\ layout \in [call : SaveCalls, pc : {"ensureDir"}, ociLayout : {FALSE},
                    config : {FALSE}, layers : {<<>>}, manifest : {<<>>},
                    index : {FALSE}, tar : {<<>>}]
    /\ layout.call # "saveAsOCIImageLayout" => useGzip = "unset"
    /\ NoCalls

NextSave == ensureDir \/ writeJson \/ writeBlob \/ saveAsDockerTar

SpecSave == SaveStart /\ [][NextSave]_vars

(***************************************************************************)
(* HttpApiService.requestWithRetry: one call of get / post / put / delete  *)
(* with retryCount n.  `calls` is the status each call of method() ended   *)
(* with (0: an error without a response); `thrown` is the attempt whose    *)
(* error the call rejects with (0: the Error after the loop).              *)
(***************************************************************************)
MaxRetry == 3

HttpMethods == {"get", "post", "put", "delete"}
OkStatuses == {200, 201}
ErrorStatuses == {0, 429, 500}

isRetryableServerErrors(status) == status = 429 \/ status >= 500
isRetryable(status) == status = 429

\* the test that ends the retries: attempts === retryCount
isLastAttemptOffByOne(attempts, retryCount) == attempts = retryCount + 1
isLastAttempt(attempts, retryCount) == attempts = retryCount

\* `return await method()`: the call resolves with the result of the
\* attempt just made
returnedFirst(calls) == 1
returned(calls) == Len(calls)

\* one turn of the loop up to the return, the throw or the sleep
method ==
    /\ http # <<>>
    /\ http.pc = "attempt"
    /\ \E status \in OkStatuses \cup ErrorStatuses :
         LET calls == Append(http.calls, status)
         IN http' =
              IF status \in OkStatuses
              THEN [http EXCEPT !.calls = calls, !.pc = "returned",
                                !.result = returned(calls)]
              ELSE IF ~isRetryable(status) \/ isLastAttempt(http.attempts, http.retryCount)
              THEN [http EXCEPT !.calls = calls, !.pc = "thrown",
                                !.thrown = Len(calls)]
              ELSE [http EXCEPT !.calls = calls, !.pc = "wait",
                                !.waitTime = 1000 * (http.attempts + 1)]
    /\ UNCHANGED <<qvars, mem, lastOp, svars, cvars, wire, cancelRequested, metrics,
                   tvars, ovars, pushed, slots>>

\* the timer fires: attempts++ and the loop condition
setTimeout ==
    /\ http # <<>>
    /\ http.pc = "wait"
    /\ http' = IF http.attempts + 1 < http.retryCount + 1
               THEN [http EXCEPT !.attempts = @ + 1, !.pc = "attempt"]
               ELSE [http EXCEPT !.attempts = @ + 1, !.pc = "thrown", !.thrown = 0]
    /\ UNCHANGED <<qvars, mem, lastOp, svars, cvars, wire, cancelRequested, metrics,
                   tvars, ovars, pushed, slots>>

HttpStart ==
    /\ QueueStart /\ NoSync /\ index = <<>> /\ cp = <<>>
    /\ NoCancel /\ NoMetrics /\ NoJobs /\ NoSave
    /\ pushed = <<>> /\ slots = <<>>
    /\ http \in [verb : HttpMethods, retryCount : 0..MaxRetry, attempts : {0},
                 calls : {<<>>}, pc : {"attempt"}, result : {0}, thrown : {0},
                 waitTime : {0}]

NextHttp == method \/ setTimeout

SpecHttp == HttpStart /\ [][NextHttp]_vars

(***************************************************************************)
(* pushImage and tagImage of ContainerRegistryClient, request by request.  *)
(* pushImage uploads the config and then each layer under the digest of    *)
(* the bytes sent (uploadBlob: a POST, then a PUT), builds the manifest    *)
(* and PUTs it under the tag.  sha256 is modelled as a collision-free      *)
(* digest: the digest of a buffer names its bytes.  `pushed` is the call   *)
(* (position i is the blob at hand, 0 the config), the blobs and the       *)
(* manifest the registry has accepted from it, the tags of the repository  *)
(* and a call of tagImage from the tag pushImage writes to another one.    *)
(***************************************************************************)
sha256(buffer) == <<"sha256", buffer>>

\* dataToUpload of a layer
dataToUpload(layer) == IF ~layer.isGzip THEN gzipSync(layer.data) ELSE layer.data

\* imageManifest as pushImage constructs it
imageManifest(config, layers) ==
    [schemaVersion |-> 2,
     mediaType |-> ManifestV2,
     config |-> [mediaType |-> ConfigType, size |-> Len(config),
                 digest |-> sha256(config)],
     layers |-> [i \in DOMAIN layers |->
                   [mediaType |-> LayerType,
                    size |-> Len(layers[i].data),
                    digest |-> sha256(dataToUpload(layers[i]))]]]

\* uploadBlob of the blob at position i.  The POST passes with 202 only and
\* its `location` is read from the body, unchecked; the PUT to
\* `${location}&digest=...` passes with any 2xx.  After the last blob the
\* manifest is built and its PUT sent.
uploadBlob ==
    /\ pushed # <<>>
    /\ pushed.pc \in {"post", "put"}
    /\ LET blob == IF pushed.i = 0 THEN pushed.config
                   ELSE dataToUpload(pushed.layers[pushed.i])
       IN IF pushed.pc = "post"
          THEN \E status \in {202, 500}, located \in BOOLEAN :
                  pushed' = IF status = 202
                            THEN [pushed EXCEPT !.pc = "put",
                                                !.stray = @ \/ ~located]
                            ELSE [pushed EXCEPT !.pc = "rejected"]
          ELSE \E status \in PutStatuses :
                  pushed' = IF uploadAccepted(status)
                            THEN [pushed EXCEPT
                                    !.uploads = Append(@, [digest |-> sha256(blob),
                                                           blob |-> blob]),
                                    !.i = IF lastBlob(@, Len(pushed.layers)) THEN @ ELSE @ + 1,
                                    !.pc = IF lastBlob(pushed.i, Len(pushed.layers))
                                           THEN "manifest" ELSE "post"]
                            ELSE [pushed EXCEPT !.pc = "rejected"]
    /\ UNCHANGED <<qvars, mem, lastOp, svars, cvars, wire, cancelRequested, metrics,
                   tvars, ovars, http, slots>>

\* pushImage: the PUT of the manifest under the tag answers
pushImage ==
    /\ pushed # <<>>
    /\ pushed.pc = "manifest"
    /\ \E status \in PutStatuses :
         pushed' = IF uploadAccepted(status)
                   THEN [pushed EXCEPT
                           !.manifest = imageManifest(pushed.config, pushed.layers),
                           !.tags.pushed = imageManifest(pushed.config, pushed.layers),
                           !.pc = "resolved"]
                   ELSE [pushed EXCEPT !.pc = "rejected"]
    /\ UNCHANGED <<qvars, mem, lastOp, svars, cvars, wire, cancelRequested, metrics,
                   tvars, ovars, http, slots>>

\* tagImage(repository, sourceTag, targetTag): it is called, its
\* getImageManifest of the source tag answers with the manifest the tag
\* holds or fails, and its PUT under the target tag answers
tagImage ==
    /\ pushed # <<>>
    /\ \/ /\ pushed.tagPc = "idle"
          /\ pushed' = [pushed EXCEPT !.tagPc = "get"]
       \/ /\ pushed.tagPc = "get"
          /\ \/ /\ pushed.tags.pushed # <<>>
                /\ pushed' = [pushed EXCEPT !.tagPc = "put", !.tagBody = pushed.tags.pushed]
             \/ pushed' = [pushed EXCEPT !.tagPc = "rejected"]
       \/ /\ pushed.tagPc = "put"
          /\ \E status \in PutStatuses :
                pushed' = IF uploadAccepted(status)
                          THEN [pushed EXCEPT !.tags.target = pushed.tagBody,
                                              !.tagPc = "resolved"]
                          ELSE [pushed EXCEPT !.tagPc = "rejected"]
    /\ UNCHANGED <<qvars, mem, lastOp, svars, cvars, wire, cancelRequested, metrics,
                   tvars, ovars, http, slots>>

PushStart ==
    /\ QueueStart /\ NoSync /\ index = <<>> /\ cp = <<>>
    /\ NoCancel /\ NoMetrics /\ NoJobs /\ NoSave
    /\ http = <<>> /\ slots = <<>>
    /\ pushed \in [config : {<<0>>, <<0, 0>>},
                   layers : SeqsUpTo([data : Buffers, isGzip : BOOLEAN], MaxSavedLayers),
                   i : {0}, pc : {"post"}, stray : {FALSE},
                   uploads : {<<>>}, manifest : {<<>>},
                   tags : {[pushed |-> <<>>, target |-> <<>>]},
                   tagPc : {"idle"}, tagBody : {<<>>}]

NextPush == uploadBlob \/ pushImage \/ tagImage

SpecPush == PushStart /\ [][NextPush]_vars

(***************************************************************************)
(* SpecJobs: the jobs of the work queue one by one.  A job is admitted     *)
(* (waiting or started at once), polls in the memory gate, runs, and       *)
(* resolves or rejects; p-queue starts jobs in the order of admission.     *)
(* Every running job settles and the polls of a job in the gate come to    *)
(* see usage below the threshold (weak fairness); the ticks are free.      *)
(***************************************************************************)
MaxAdmitted == 3

JobSlots == 1..MaxAdmitted
Settled == {"resolved", "rejected"}

\* the first n waiting jobs start, oldest first
startHeads(sl, n) ==
    [j \in DOMAIN sl |->
       IF sl[j] = "waiting"
          /\ Cardinality({i \in DOMAIN sl : i < j /\ sl[i] = "waiting"}) < n
       THEN "gate"
       ELSE sl[j]]

\* p-queue, when the promise of a job settles either way: pending--
releaseResolvedOnly(q, result) ==
    IF result = "resolved" THEN [q EXCEPT !.pending = @ - 1] ELSE q
release(q, result) == [q EXCEPT !.pending = @ - 1]

\* syncImageWithBuffer / syncImageWithTarball: queue.add(job)
jobAdd ==
    /\ slots # <<>>
    /\ \E j \in JobSlots :
         /\ slots[j] = "new"
         /\ \A i \in JobSlots : i < j => slots[i] # "new"
         /\ ~enqueueOverflows(queueSize)
         /\ LET q == tryToStartAnother([QState EXCEPT !.size = @ + 1])
            IN /\ SetQ(q)
               /\ slots' = startHeads([slots EXCEPT ![j] = "waiting"], q.pending - pending)
    /\ lastOp' = "add_ok"
    /\ UNCHANGED <<mem, load, svars, cvars, wire, cancelRequested, metrics, tvars, ovars,
                   http, pushed>>

\* the cron tick while jobs wait and run
jobTick ==
    /\ slots # <<>>
    /\ \E m \in QueueSamples :
         LET q == ticked(QState, m)
         IN /\ mem' = m
            /\ SetQ(q)
            /\ slots' = startHeads(slots, q.pending - pending)
    /\ lastOp' = "tick"
    /\ UNCHANGED <<load, svars, cvars, wire, cancelRequested, metrics, tvars, ovars,
                   http, pushed>>

\* one poll of waitForMemoryAvailability of job j
jobGate(j) ==
    /\ slots # <<>>
    /\ slots[j] = "gate"
    /\ \E m \in QueueSamples :
         /\ mem' = m
         /\ slots' = [slots EXCEPT ![j] = IF memoryAvailable(m) THEN "running" ELSE @]
    /\ lastOp' = "poll"
    /\ UNCHANGED <<qvars, svars, cvars, wire, cancelRequested, metrics, tvars, ovars,
                   http, pushed>>

\* the job function of job j returns or throws
jobSettle(j, result) ==
    /\ slots # <<>>
    /\ slots[j] = "running"
    /\ LET freed == release(QState, result)
           q == tryToStartAnother(freed)
       IN /\ SetQ(q)
          /\ slots' = startHeads([slots EXCEPT ![j] = result], q.pending - freed.pending)
    /\ lastOp' = "settle"
    /\ UNCHANGED <<mem, load, svars, cvars, wire, cancelRequested, metrics, tvars, ovars,
                   http, pushed>>

JobsStart ==
    /\ QueueStart /\ NoSync /\ index = <<>> /\ cp = <<>>
    /\ NoCancel /\ NoMetrics /\ NoJobs /\ NoSave
    /\ http = <<>> /\ pushed = <<>>
    /\ slots = [j \in JobSlots |-> "new"]

NextJobs ==
    \/ jobAdd
    \/ jobTick
    \/ \E j \in JobSlots : jobGate(j)
    \/ \E j \in JobSlots : \E result \in Settled : jobSettle(j, result)

SpecJobs ==
    /\ JobsStart
    /\ [][NextJobs]_vars
    /\ \A j \in JobSlots :
          /\ WF_vars(jobGate(j) /\ memoryAvailable(mem'))
          /\ WF_vars(\E result \in Settled : jobSettle(j, result))

\* C21: a RegistryService job in the memory gate has sent no registry
\* request; it leaves the gate, towards the manifest GET, only in a poll
\* whose sample of heapUsed + external + arrayBuffers is below
\* MEMORY_THRESHOLD, and stays in the gate in every other poll.
C21_GateBeforeRequests ==
    [][pc = "gate" =>
         /\ wire = NoWire /\ wire' = wire
         /\ pushedOk = {} /\ ~putIssued
         /\ pc' \in {"gate", "getManifest"}
         /\ pc' = "getManifest" =>
               mem'.heapUsed + mem'.external + mem'.arrayBuffers < MEMORY_THRESHOLD]_vars

C21_Witness ==
    /\ flow = "tarball"
    /\ pc = "gate"
    /\ mem.heapUsed + mem.external + mem.arrayBuffers = MEMORY_THRESHOLD

\* C22 (as stated): a job in the memory gate whose caller has asked for its
\* cancellation leaves the gate, whatever the memory samples, and leaves it
\* settled as failed with the memory-gate-abort error.
C22_CancelEndsWait ==
    /\ (cancelRequested /\ pc = "gate") ~> (pc # "gate")
    /\ [][(cancelRequested /\ pc = "gate" /\ pc' # "gate")
            => (pc' = "failed" /\ error' = "MemoryGateAbort")]_vars

\* C23 (as stated): no syncImageWithTarball job writes, reads or deletes a
\* temp file that another job running at the same time created, also when
\* both images have a blob of the same digest.
C23_TempFilesPrivate == ~trespass

\* the stages of a layer task in which bytes of the blob move
TransferStages == {"download", "post", "put"}

\* C24 (as stated): within one invocation, no two transfers of the same blob
\* digest are in flight at the same time, also when the manifest lists a
\* digest twice.
C24_NoConcurrentSameDigest ==
    flow = "copy" =>
        \A c \in ConcreteCopies :
           \A j, k \in DOMAIN cp[c].tasks :
              (j # k /\ cp[c].tasks[j] \in TransferStages /\ cp[c].tasks[k] \in TransferStages)
                 => blobAt(manifest, layerBlobs(manifest)[j]).digest
                       # blobAt(manifest, layerBlobs(manifest)[k]).digest

\* C25: in syncImageWithTarball the upload of a blob is started only after
\* the pipeline of that blob into its temp file has ended, and the file the
\* push reads is the file that blob was drained into.
C25_PushAfterDrain ==
    flow = "tarball" =>
        /\ \A pos \in wire.posted : \E d \in wire.drained : d[1] = pos
        /\ wire.reads \subseteq wire.drained

C25_Witness ==
    /\ flow = "tarball"
    /\ outcome = "success"
    /\ \E r1, r2 \in wire.reads : r1[2] # r2[2]

\* C26: in syncImageWithTarball an unlink that throws leaves the job a
\* success, and every temp file whose unlink did not throw is deleted.
C26_UnlinkFailureLoggedOnly ==
    (flow = "tarball" /\ unlinkFailed # {}) =>
        /\ pc = "done"
        /\ outcome = "success"
        /\ tmpFiles \cap blobPaths(blobs) \subseteq unlinkFailed

C26_Witness ==
    /\ flow = "tarball"
    /\ unlinkFailed # {}
    /\ blobPaths(blobs) \ tmpFiles # {}
    /\ outcome = "success"

\* C27: a sync job settles once: as success only in the step in which the
\* manifest PUT it sent is answered with success, as failed with the error
\* of the step that failed as soon as a manifest fetch, blob pull, blob push
\* or manifest PUT fails; once settled, outcome and error stay.
C27_Step ==
    /\ (outcome \in {"success", "failed"} => (outcome' = outcome /\ error' = error))
    /\ ((outcome' = "success" /\ outcome # "success")
          => (pc = "putManifest" /\ putIssued /\ pc' = "done"))
    /\ ((pc' = "failed" /\ pc # "failed")
          => (outcome' = "failed" /\ error' # "none"))
    /\ (blobFailed' => outcome' = "failed")
    /\ (outcome' = "running" => error' = "none")

C27_SettlesOnce == [][(flow \in SyncFlows) => C27_Step]_vars

C27_Witness ==
    /\ flow = "tarball"
    /\ outcome = "failed"
    /\ error = "BlobPushRejected"
    /\ Len(blobs) >= 2

\* C30 (as stated): when a sync has settled, every stream a pull of it
\* opened has been drained or aborted.
C30_StreamsDrainedOrAborted ==
    (flow \in SyncFlows /\ outcome \in {"success", "failed"}) => wire.open = {}

\* C28: getMetrics can be called in every state of the queue; the call
\* leaves queueSize, pending and concurrency as they were and the values it
\* returns are the queue's values at the time of the call.
C28_Snapshot ==
    /\ (getMetrics =>
          /\ UNCHANGED <<queueSize, pending, concurrency, mem, load>>
          /\ metrics'.queueSize = queueSize
          /\ metrics'.pending = pending
          /\ metrics'.concurrency = concurrency)
    /\ (lastOp' = "metrics" => UNCHANGED <<queueSize, pending, concurrency>>)

C28_MetricsReadOnly == [](ENABLED getMetrics) /\ [][C28_Snapshot]_vars

C28_Witness ==
    /\ lastOp = "metrics"
    /\ metrics.queueSize > 0
    /\ metrics.pending > metrics.queueSize
    /\ metrics.concurrency # DEFAULT_CONCURRENCY
    /\ metrics.queueSize = queueSize

endsWithGzip(mediaType) == mediaType[Len(mediaType)] = "+gzip"

\* C29 (as stated): with useGzip unset, a layer that begins with 0x1f 0x8b
\* is stored unchanged under a media type ending in +gzip, and any other
\* layer is stored gzip-compressed under a media type ending in +gzip.
C29_GzipLayersMarked ==
    (/\ layout # <<>>
     /\ layout.call = "saveAsOCIImageLayout"
     /\ useGzip = "unset") =>
        \A i \in DOMAIN layout.layers :
            /\ endsWithGzip(layout.layers[i].mediaType)
            /\ layout.layers[i].data = IF isProbablyGzip(image[i])
                                       THEN image[i]
                                       ELSE gzipSync(image[i])

\* C31: while copyImage copies a concrete manifest, at most LIMIT of its
\* layer tasks are in flight at a time, whatever the number of layers, and
\* the transfer of the config is in flight only when no layer task is.
C31_AtMostTwoBlobCopies ==
    flow = "copy" =>
        \A c \in ConcreteCopies :
           /\ activeCount(cp[c].tasks) <= LIMIT
           /\ cp[c].cfg \in ActiveStages => activeCount(cp[c].tasks) = 0

C31_Witness ==
    /\ flow = "copy"
    /\ Len(cp[0].tasks) = 3
    /\ activeCount(cp[0].tasks) = LIMIT
    /\ cp[0].tasks[3] = "queued"
    /\ cp[0].tasks[1] = "put"

\* C35: a step of the queue starts waiting jobs only up to the concurrency
\* in force (so none while the running count is at or above a lowered
\* limit), and the running count falls only by the settling of one job.
C35_Step ==
    LET settled == IF lastOp' = "settle" THEN 1 ELSE 0
        started == (pending' - pending) + settled
    IN /\ (started > 0 => pending' <= concurrency')
       /\ (pending - settled >= concurrency' => started <= 0)
       /\ (pending' < pending => (lastOp' = "settle" /\ pending' = pending - 1))
       /\ (lastOp' = "tick" => pending' >= pending)

C35_StartsBelowLimit == [][C35_Step]_vars

C35_Witness ==
    /\ lastOp = "tick"
    /\ pending > concurrency
    /\ queueSize > 0

\* C37 (as stated): once the copyImage call of the caller has settled, no
\* copy of the invocation has a layer task, a config transfer, a manifest
\* fetch or a manifest PUT in flight or still to start.
C37_NothingRunsAfterSettle ==
    (flow = "copy" /\ cp[0].pc \in {"done", "failed"}) =>
        \A c \in CopyIds :
           /\ \A k \in DOMAIN cp[c].tasks : cp[c].tasks[k] \notin ActiveStages \cup {"queued"}
           /\ cp[c].pc \notin {"fetch", "layers", "config", "putManifest"}

\* every attempt made so far ended with 429
All429 == \A i \in DOMAIN http.calls : http.calls[i] = 429

\* C32: with retryCount n and every attempt answered 429, the call makes
\* n + 1 attempts, no more, and then rejects with the error of the last one.
C32_FailsAfterRetryLimit ==
    http # <<>> =>
        /\ Len(http.calls) <= http.retryCount + 1
        /\ (All429 /\ Len(http.calls) = http.retryCount + 1) =>
              (http.pc = "thrown" /\ http.thrown = http.retryCount + 1)
        /\ (All429 /\ http.pc = "thrown") => Len(http.calls) = http.retryCount + 1

C32_Witness ==
    /\ http # <<>>
    /\ http.retryCount = 2
    /\ http.calls = <<429, 429, 429>>
    /\ http.pc = "thrown"

\* C33: when k <= n attempts answered 429 are followed by a successful one,
\* the call resolves with the result of that attempt, number k + 1, and no
\* attempt is made after it.
C33_ReturnsFirstSuccess ==
    http # <<>> =>
        \A i \in DOMAIN http.calls :
           http.calls[i] \in OkStatuses =>
              /\ i = Len(http.calls)
              /\ \A j \in 1..(i - 1) : http.calls[j] = 429
              /\ i <= http.retryCount + 1
              /\ http.pc = "returned"
              /\ http.result = i

C33_Witness ==
    /\ http # <<>>
    /\ http.retryCount = 3
    /\ http.calls = <<429, 429, 200>>
    /\ http.pc = "returned"

\* C34: an attempt that fails with another status than 429, or without a
\* response, ends the call at once with the error of that attempt, whatever
\* retryCount and the 429 answers before; only a 429 is followed by a wait.
C34_RetriesOnlyOn429 ==
    http # <<>> =>
        /\ \A i \in DOMAIN http.calls :
              (http.calls[i] \in ErrorStatuses \ {429}) =>
                 /\ i = Len(http.calls)
                 /\ http.pc = "thrown"
                 /\ http.thrown = i
        /\ http.pc = "wait" => http.calls[Len(http.calls)] = 429

C34_Witness ==
    /\ http # <<>>
    /\ http.retryCount = 3
    /\ http.calls = <<429, 0>>
    /\ http.pc = "thrown"

\* C36: a job that rejects frees its slot like one that resolves: every
\* admitted job comes to start and to settle, whatever the jobs before it
\* settled as, provided running jobs settle and the gate comes to see usage
\* below the threshold.
C36_AdmittedJobsSettle ==
    \A j \in JobSlots :
       (slots # <<>> /\ slots[j] \in {"waiting", "gate", "running"})
          ~> (slots[j] \in Settled)

C36_Witness ==
    /\ slots # <<>>
    /\ concurrency = MIN_CONCURRENCY
    /\ slots[1] = "rejected"
    /\ slots[2] = "rejected"
    /\ slots[3] = "resolved"
    /\ lastOp = "settle"

\* C38 (as stated): in the manifest pushImage has pushed, the descriptor of
\* every layer and of the config carries the digest and the size of the
\* bytes uploaded for it.
C38_DescriptorsDescribeUploads ==
    (pushed # <<>> /\ pushed.pc = "resolved") =>
        /\ pushed.manifest.config.digest = sha256(pushed.uploads[1].blob)
        /\ pushed.manifest.config.size = Len(pushed.uploads[1].blob)
        /\ \A i \in DOMAIN pushed.manifest.layers :
              /\ pushed.manifest.layers[i].digest = sha256(pushed.uploads[i + 1].blob)
              /\ pushed.manifest.layers[i].size = Len(pushed.uploads[i + 1].blob)

\* what a sync has left at the destination: the digests pushed and the
\* manifest PUT with its Content-Type
destination ==
    [blobs |-> {blobAt(manifest, i).digest : i \in pushedOk},
     manifest |-> putBody,
     contentType |-> putType]

\* C39: a successful syncImageWithBuffer and a successful
\* syncImageWithTarball of the same image leave the same state at the
\* destination: every blob of the manifest pushed under its digest and the
\* fetched manifest PUT, whichever the mode.
C39_ModesLeaveSameDestination ==
    (flow \in {"buffer", "tarball"} /\ outcome = "success") =>
        destination =
           [blobs |-> {blobAt(manifest, i).digest : i \in Positions(manifest)},
            manifest |-> manifest,
            contentType |-> ManifestV2]

C39_Witness ==
    /\ flow = "tarball"
    /\ outcome = "success"
    /\ Len(manifest.layers) = 2
    /\ manifest.mediaType = ManifestOCI
    /\ tmpFiles = {}

====
